---------------------------- MODULE Spec2Model ----------------------------
(***************************************************************************)
(* Model of the question-answering service: the remote SQL client with its *)
(* query cache (neo_mcp/db.py), the tiered router (neo_mcp/router.py), the *)
(* semantic response cache (rag/semantic_cache.py) and the agent loop      *)
(* (neo_mcp/agent.py).                                                     *)
(*                                                                         *)
(* Text is modelled as a sequence of atoms (short strings); the atoms " "  *)
(* and "\n" are whitespace.  md5 is modelled as injective: a cache key is  *)
(* the pair of the source tag and the normalized text.  A Python dict is a *)
(* sequence of entries in insertion order.  A query result is a record     *)
(* whose rows field is the sequence of the rows' id columns (0: a row      *)
(* without a usable id).                                                   *)
(***************************************************************************)
EXTENDS Integers, Sequences, FiniteSets, TLC

VARIABLES
    _query_cache,   \* db.py _query_cache: entries [key, result, timestamp]
    now,            \* time.time(), in seconds
    fresh,          \* number of distinct parameter values stored so far
    sqlOut,         \* what the last call of the SQL client did
    calls,          \* number of calls counted against a bound (MaxCalls, MaxRepeats)
    response_cache, \* rows of the response cache table, in rowid order
    AGGREGATION_CACHE,  \* router: aggregation key -> [data, timestamp]
    routeOut,       \* what the last route_question call did
    cacheOut,       \* what the last call of the response cache did
    pc,             \* agent run: "idle", "router", "cache", "key", "loop", "done"
    req,            \* agent run: the arguments and the environment of the run
    turns_used,     \* run_agent: turns_used
    messages,       \* run_agent: messages
    all_tool_calls, \* run_agent: all_tool_calls
    run_insights,   \* run_agent: insights
    run_entities,   \* run_agent: entities
    run_result,     \* the dict the run returned (streaming: the complete event's data)
    events,         \* run_agent_streaming: the events yielded so far
    trace,          \* what the run did: LLM requests, router calls, cache reads and writes
    tasks           \* calls running at the same time: each one's position and locals

\* ------------------------------------------------------------------------
\* Bounds of the model
\* ------------------------------------------------------------------------
TickSeconds == 150
MaxTicks == 2
MaxFresh == 103
MaxCalls == 2
MaxRespFresh == 502
MaxLookupFresh == 101
MaxRepeats == 1
MaxRoutes == 1
MaxTurns == 2

\* ------------------------------------------------------------------------
\* Program constants
\* ------------------------------------------------------------------------
CACHE_TTL == 300
QUERY_CACHE_MAX == 100
QUERY_CACHE_EVICT == 50
SAFETY_LIMIT == 500
DEFAULT_LIMIT == 100
MAX_RETRIES == 2
MAX_CACHE_ENTRIES == 500
ANSWER_CHARS == 10000
SEMANTIC_CACHE_TTL == 3600
SIMILARITY_THRESHOLD == 8000
LOOKUP_ROWS == 100
MAX_TURNS == 25
PREVIEW_CHARS == 500
DEFAULT_MODEL == "claude-sonnet-4-20250514"
CACHE_TTL_SECONDS == 300

SERVICE_URLS ==
    {"researchers", "patents", "grants", "policies", "portfolio", "market_data"}

\* ------------------------------------------------------------------------
\* Text: str.strip, str.rstrip(';'), str.upper, str.lower, substring test
\* ------------------------------------------------------------------------
IsSpace(a) == a \in {" ", "\n"}

RECURSIVE lstrip(_)
lstrip(s) ==
    IF s = <<>> THEN s
    ELSE IF IsSpace(Head(s)) THEN lstrip(Tail(s)) ELSE s

RECURSIVE rstrip(_)
rstrip(s) ==
    IF s = <<>> THEN s
    ELSE IF IsSpace(s[Len(s)]) THEN rstrip(SubSeq(s, 1, Len(s) - 1)) ELSE s

strip(s) == rstrip(lstrip(s))

RECURSIVE rstrip_semicolon(_)
rstrip_semicolon(s) ==
    IF s = <<>> THEN s
    ELSE IF s[Len(s)] = ";" THEN rstrip_semicolon(SubSeq(s, 1, Len(s) - 1))
    ELSE s

UpperAtom(a) ==
    CASE a = "select" -> "SELECT"
      [] a = "limit" -> "LIMIT"
      [] a = "delete" -> "DELETE"
      [] a = "rate_limit" -> "RATE_LIMIT"
      [] a = "x" -> "X"
      [] a = "q" -> "Q"
      [] a = "id=" -> "ID="
      [] a = "'Foo'" -> "'FOO'"
      [] a = "'foo'" -> "'FOO'"
      [] OTHER -> a

LowerAtom(a) ==
    CASE a = "SELECT" -> "select"
      [] a = "LIMIT" -> "limit"
      [] a = "DELETE" -> "delete"
      [] a = "'Foo'" -> "'foo'"
      [] a = "Q" -> "q"
      [] a = "How many patents?" -> "how many patents?"
      [] a = "For Epana, which researchers should we talk to?"
            -> "for epana, which researchers should we talk to?"
      [] a = "Top 900 researchers in oncology" -> "top 900 researchers in oncology"
      [] OTHER -> a

upper(s) == [i \in 1..Len(s) |-> UpperAtom(s[i])]
lower(s) == [i \in 1..Len(s) |-> LowerAtom(s[i])]

\* "LIMIT" in text: whitespace separates the atoms, so the substring lies
\* inside one atom
ContainsLIMIT(s) == \E i \in 1..Len(s) : s[i] \in {"LIMIT", "RATE_LIMIT"}

Min(a, b) == IF a < b THEN a ELSE b

\* s[:n]
FirstN(rows, n) == SubSeq(rows, 1, Min(Len(rows), n))

\* ------------------------------------------------------------------------
\* Results
\* ------------------------------------------------------------------------
None == [kind |-> "none", rows |-> <<>>, msg |-> ""]
Result(rows) == [kind |-> "ok", rows |-> rows, msg |-> ""]
Error(msg) == [kind |-> "error", rows |-> <<>>, msg |-> msg]

\* ------------------------------------------------------------------------
\* db.py: the query cache
\* ------------------------------------------------------------------------
_cache_key(db_name, query) == <<db_name, lower(strip(query))>>

HasKey(cache, key) == \E i \in 1..Len(cache) : cache[i].key = key
IndexOf(cache, key) == CHOOSE i \in 1..Len(cache) : cache[i].key = key
RemoveAt(cache, i) == SubSeq(cache, 1, i - 1) \o SubSeq(cache, i + 1, Len(cache))
RemoveKey(cache, key) ==
    IF HasKey(cache, key) THEN RemoveAt(cache, IndexOf(cache, key)) ELSE cache

\* [value, cache]: the stored result (None on a miss) and the cache after
\* [value, cache]: the lookup with an entry of exactly CACHE_TTL seconds kept
GetCachedInclusive(cache, key, t) ==
    IF HasKey(cache, key) /\ t - cache[IndexOf(cache, key)].timestamp <= CACHE_TTL
    THEN [value |-> cache[IndexOf(cache, key)].result, cache |-> cache]
    ELSE [value |-> None, cache |-> RemoveKey(cache, key)]

\* [value, cache]: the lookup that leaves an expired entry where it is
GetCachedKeeping(cache, key, t) ==
    IF HasKey(cache, key) /\ t - cache[IndexOf(cache, key)].timestamp < CACHE_TTL
    THEN [value |-> cache[IndexOf(cache, key)].result, cache |-> cache]
    ELSE [value |-> None, cache |-> cache]

_get_cached(cache, key, t) ==
    IF HasKey(cache, key)
    THEN LET entry == cache[IndexOf(cache, key)]
         IN IF t - entry.timestamp < CACHE_TTL
            THEN [value |-> entry.result, cache |-> cache]
            ELSE [value |-> None, cache |-> RemoveKey(cache, key)]
    ELSE [value |-> None, cache |-> cache]

\* position of entry i in sorted(keys, key=timestamp): the sort is stable
SortRank(cache, i) ==
    Cardinality({j \in 1..Len(cache) :
        \/ cache[j].timestamp < cache[i].timestamp
        \/ cache[j].timestamp = cache[i].timestamp /\ j < i})

\* the entries at the positions in keep, in their order
SelectIdx(cache, keep) ==
    [k \in 1..Cardinality(keep) |->
        cache[CHOOSE i \in keep : Cardinality({j \in keep : j <= i}) = k]]

\* an eviction that removes the newest entries
EvictNewest(cache) ==
    SelectIdx(cache, {i \in 1..Len(cache) :
                         SortRank(cache, i) < Len(cache) - QUERY_CACHE_EVICT})

EvictOldest(cache) ==
    SelectIdx(cache, {i \in 1..Len(cache) : SortRank(cache, i) >= QUERY_CACHE_EVICT})

\* d[key] = value: an existing key keeps its place
DictSet(cache, entry) ==
    IF HasKey(cache, entry.key)
    THEN [cache EXCEPT ![IndexOf(cache, entry.key)] = entry]
    ELSE Append(cache, entry)

_set_cached(cache, key, result, t) ==
    LET c1 == IF Len(cache) > QUERY_CACHE_MAX THEN EvictOldest(cache) ELSE cache
    IN DictSet(c1, [key |-> key, result |-> result, timestamp |-> t])

\* ------------------------------------------------------------------------
\* db.py: execute_query
\*   http: the outcome of each HTTP attempt, [kind, rows];
\*         kind "ok" (2xx with a JSON body), "timeout", "status" (4xx/5xx),
\*         "status_nojson" (4xx/5xx whose body is not a JSON object: the
\*         handler's e.response.json().get raises and that exception leaves
\*         the call), "other" (any other exception)
\*   returns [raised, value, cache, posts]: posts are the statements sent
\* ------------------------------------------------------------------------
AddLimit(query, limit) ==
    IF ~ContainsLIMIT(upper(strip(query)))
    THEN rstrip_semicolon(query) \o <<" ", "LIMIT", " ", ToString(Min(limit, SAFETY_LIMIT))>>
    ELSE query

Post(db_name, query) == [db |-> db_name, query |-> query]

RECURSIVE Attempts(_, _, _, _, _, _, _, _)
Attempts(cache, t, db_name, query, key, use_cache, http, attempt) ==
    LET out == http[attempt + 1]
        sent == <<Post(db_name, query)>>
    IN CASE out.kind = "ok" ->
              [raised |-> FALSE, value |-> Result(out.rows),
               cache |-> IF use_cache THEN _set_cached(cache, key, Result(out.rows), t)
                         ELSE cache,
               posts |-> sent]
         [] out.kind = "timeout" ->
              IF attempt < MAX_RETRIES - 1
              THEN LET r == Attempts(cache, t, db_name, query, key, use_cache, http, attempt + 1)
                   IN [r EXCEPT !.posts = sent \o r.posts]
              ELSE [raised |-> TRUE, value |-> Error("Query timed out after 2 attempts"),
                    cache |-> cache, posts |-> sent]
         [] out.kind = "status" ->
              [raised |-> TRUE, value |-> Error("Query error: detail"),
               cache |-> cache, posts |-> sent]
         [] out.kind = "status_nojson" ->
              [raised |-> TRUE, value |-> Error("Expecting value"),
               cache |-> cache, posts |-> sent]
         [] OTHER ->
              [raised |-> TRUE, value |-> Error("Failed to query"),
               cache |-> cache, posts |-> sent]

execute_query(cache, t, db_name, query, limit, use_cache, http) ==
    IF db_name \notin SERVICE_URLS
    THEN [raised |-> TRUE, value |-> Error("Unknown database"),
          cache |-> cache, posts |-> <<>>]
    ELSE LET q == AddLimit(query, limit)
             key == _cache_key(db_name, q)
             look == IF use_cache THEN _get_cached(cache, key, t)
                     ELSE [value |-> None, cache |-> cache]
         IN IF use_cache /\ look.value # None
            THEN [raised |-> FALSE, value |-> look.value,
                  cache |-> look.cache, posts |-> <<>>]
            ELSE Attempts(look.cache, t, db_name, q, key, use_cache, http, 0)

\* ------------------------------------------------------------------------
\* db.py: SEC semantic functions (GET /api/semantic/*, cached by parameters)
\*   out: [kind, rows] of the one HTTP attempt
\* ------------------------------------------------------------------------
sec_semantic(cache, t, endpoint, params, out) ==
    LET key == _cache_key("sec", <<endpoint>> \o params)
        look == _get_cached(cache, key, t)
    IN IF look.value # None
       THEN [raised |-> FALSE, value |-> look.value, cache |-> look.cache, posts |-> <<>>]
       ELSE IF out.kind = "ok"
            THEN [raised |-> FALSE, value |-> Result(out.rows),
                  cache |-> _set_cached(look.cache, key, Result(out.rows), t),
                  posts |-> <<>>]
            ELSE [raised |-> FALSE, value |-> Error("sec"),
                  cache |-> look.cache, posts |-> <<>>]

get_sec_filings(cache, t, days, out) ==
    sec_semantic(cache, t, "filings:", <<ToString(days)>>, out)

get_runway_alerts(cache, t, out) ==
    sec_semantic(cache, t, "runway_alerts", <<>>, out)


\* ------------------------------------------------------------------------
\* db.py: a semantic function (get_researchers_by_topic): the statement is
\* built from the arguments, the limit cast with int()
\* ------------------------------------------------------------------------
researchers_by_topic_sql(topic, limit) ==
    <<"\n", "SELECT", " ", "x", " ", "WHERE", " ", "topics", " ", "LIKE", " ", topic,
      " ", "LIMIT", " ", ToString(limit), "\n">>

get_researchers_by_topic(cache, t, topic, limit, http) ==
    execute_query(cache, t, "researchers", researchers_by_topic_sql(topic, limit),
                  DEFAULT_LIMIT, TRUE, http)

\* ------------------------------------------------------------------------
\* db.py: get_schema_docs, get_all_schema_context
\* ------------------------------------------------------------------------
SchemaDocsSql == <<"\n", "SELECT", " ", "x", " ", "FROM", " ", "_schema_docs", "\n">>
SecSchemaDocsSql == <<"SELECT", " ", "x", " ", "FROM", " ", "_schema_docs">>

get_schema_docs(cache, t, db_name, http) ==
    LET key == _cache_key(db_name, <<"_schema_docs_all">>)
        look == _get_cached(cache, key, t)
    IN IF look.value # None
       THEN [raised |-> FALSE, value |-> look.value, cache |-> look.cache, posts |-> <<>>]
       ELSE LET r == execute_query(look.cache, t, db_name, SchemaDocsSql,
                                   DEFAULT_LIMIT, TRUE, http)
            IN IF r.raised
               THEN [r EXCEPT !.raised = FALSE, !.value = Result(<<>>)]
               ELSE [r EXCEPT !.cache = _set_cached(r.cache, key, r.value, t)]

\* https: one outcome sequence per source, then the outcome of the POST to the
\* SEC source, which goes out without execute_query
get_all_schema_context(cache, t, https, sec) ==
    LET r1 == get_schema_docs(cache, t, "researchers", https[1])
        r2 == get_schema_docs(r1.cache, t, "patents", https[2])
        r3 == get_schema_docs(r2.cache, t, "grants", https[3])
    IN [raised |-> FALSE,
        value |-> Result(r1.value.rows \o r2.value.rows \o r3.value.rows
                         \o (IF sec.kind = "ok" THEN sec.rows ELSE <<>>)),
        cache |-> r3.cache,
        posts |-> r1.posts \o r2.posts \o r3.posts
                  \o <<Post("sec_sentinel", SecSchemaDocsSql)>>]

\* ------------------------------------------------------------------------
\* The state the SQL client never touches
\* ------------------------------------------------------------------------
NoRoute == [called |-> FALSE]

\* no agent run in progress
NoRequest == [question |-> <<>>, conversation_history |-> <<>>, skip_cache |-> FALSE,
              skip_router |-> FALSE, max_turns |-> 0, api_key |-> FALSE,
              streaming |-> FALSE]
NoResult == [returned |-> FALSE]
NoTrace == [requests |-> <<>>, router_calls |-> 0, cache_reads |-> 0,
            cache_writes |-> 0, cache0 |-> <<>>, earlier |-> <<>>, log |-> <<>>,
            inputs |-> <<>>]
\* no calls running at the same time
NoTasks == <<>>
agentVars == <<pc, req, turns_used, messages, all_tool_calls, run_insights,
               run_entities, run_result, events, trace>>
AgentIdle ==
    /\ pc = "idle"
    /\ req = NoRequest
    /\ turns_used = 0
    /\ messages = <<>>
    /\ all_tool_calls = <<>>
    /\ run_insights = <<>>
    /\ run_entities = <<>>
    /\ run_result = NoResult
    /\ events = <<>>
    /\ trace = NoTrace

NoCacheCall == [op |-> "none"]
outsideSql == <<response_cache, AGGREGATION_CACHE, routeOut, cacheOut, agentVars, tasks>>
OutsideSqlIdle ==
    /\ response_cache = <<>>
    /\ cacheOut = NoCacheCall
    /\ AGGREGATION_CACHE = <<>>
    /\ routeOut = NoRoute
    /\ AgentIdle
    /\ tasks = NoTasks

\* ------------------------------------------------------------------------
\* The SQL client filling its cache: calls with a numeric parameter.
\* Parameter n is the next value never stored or the first one; odd values
\* go to execute_query, even ones to get_sec_filings(days=n).
\* ------------------------------------------------------------------------
ParamQuery(n) == <<"SELECT", " ", "x", " ", "WHERE", " ", "id=", ToString(n)>>

FillHttp ==
    {<<[kind |-> "ok", rows |-> <<1>>], [kind |-> "ok", rows |-> <<1>>]>>,
     <<[kind |-> "timeout", rows |-> <<>>], [kind |-> "ok", rows |-> <<1>>]>>,
     <<[kind |-> "timeout", rows |-> <<>>], [kind |-> "timeout", rows |-> <<>>]>>,
     <<[kind |-> "status", rows |-> <<>>], [kind |-> "ok", rows |-> <<1>>]>>}

FillParams == {n \in {fresh + 1, 1} : n <= MaxFresh}

CallOut(r) == [raised |-> r.raised, value |-> r.value, posts |-> r.posts]
Stored(r) == ~r.raised /\ r.value.kind = "ok"
NoCall == [raised |-> FALSE, value |-> None, posts |-> <<>>]

InitFill ==
    /\ _query_cache = <<>>
    /\ now = 0
    /\ fresh = 0
    /\ sqlOut = NoCall
    /\ calls = 0
    /\ OutsideSqlIdle

FillQuery ==
    \E n \in FillParams, http \in FillHttp :
        /\ n % 2 = 1
        /\ LET r == execute_query(_query_cache, now, "researchers", ParamQuery(n),
                                  DEFAULT_LIMIT, TRUE, http)
           IN /\ _query_cache' = r.cache
              /\ sqlOut' = CallOut(r)
              /\ fresh' = IF n > fresh /\ Stored(r) THEN n ELSE fresh
        /\ UNCHANGED <<now, calls, outsideSql>>

FillSec ==
    \E n \in FillParams, http \in FillHttp :
        /\ n % 2 = 0
        /\ LET r == get_sec_filings(_query_cache, now, n, http[1])
           IN /\ _query_cache' = r.cache
              /\ sqlOut' = CallOut(r)
              /\ fresh' = IF n > fresh /\ Stored(r) THEN n ELSE fresh
        /\ UNCHANGED <<now, calls, outsideSql>>

\* The clock moves in steps of TickSeconds, and here only while the cache
\* holds a multiple of QUERY_CACHE_EVICT entries.
FillTick ==
    /\ now < MaxTicks * TickSeconds
    /\ Len(_query_cache) % QUERY_CACHE_EVICT = 0
    /\ now' = now + TickSeconds
    /\ UNCHANGED <<_query_cache, fresh, sqlOut, calls, outsideSql>>

NextFill == FillQuery \/ FillSec \/ FillTick

varsFill == <<_query_cache, now, fresh, sqlOut, calls, outsideSql>>

SpecFill == InitFill /\ [][NextFill]_varsFill

\* C3: after every insertion performed by _set_cached the query cache holds
\* at most 100 entries (the limit get_cache_stats reports as max_entries).
C3_QueryCacheAtMost100 == Len(_query_cache) <= QUERY_CACHE_MAX


\* ------------------------------------------------------------------------
\* The SQL client as its callers use it: the raw query_<source> tools, a
\* semantic function and the schema context
\* ------------------------------------------------------------------------
RawQueries ==
    {<<"SELECT", " ", "x">>,
     <<" ", "select", " ", "x", ";">>,
     <<"SELECT", " ", "x", " ", "LIMIT", " ", "10">>,
     <<"SELECT", " ", "x", " ", "limit", " ", "9999">>,
     <<"SELECT", " ", "rate_limit">>,
     <<"SELECT", " ", "'Foo'">>,
     <<"SELECT", " ", "'foo'">>,
     <<"DELETE", " ", "x">>}

OkRows == [kind |-> "ok", rows |-> <<1>>]
Timeout == [kind |-> "timeout", rows |-> <<>>]
Status == [kind |-> "status", rows |-> <<>>]
SqlHttp == {<<OkRows, OkRows>>, <<Timeout, OkRows>>, <<Status, OkRows>>}

InitSql ==
    /\ _query_cache = <<>>
    /\ now = 0
    /\ fresh = 0
    /\ sqlOut = NoCall
    /\ calls = 0
    /\ OutsideSqlIdle

SqlRawQuery ==
    \E db \in {"researchers", "nosuchdb"}, q \in RawQueries, http \in SqlHttp :
        /\ calls < MaxCalls
        /\ LET r == execute_query(_query_cache, now, db, q, DEFAULT_LIMIT, TRUE, http)
           IN /\ _query_cache' = r.cache
              /\ sqlOut' = CallOut(r)
        /\ calls' = calls + 1
        /\ UNCHANGED <<now, fresh, outsideSql>>

SqlSemantic ==
    \E limit \in {20, 9999}, http \in SqlHttp :
        /\ calls < MaxCalls
        /\ LET r == get_researchers_by_topic(_query_cache, now, "'foo'", limit, http)
           IN /\ _query_cache' = r.cache
              /\ sqlOut' = CallOut(r)
        /\ calls' = calls + 1
        /\ UNCHANGED <<now, fresh, outsideSql>>

SqlSchemaContext ==
    \E h \in {<<OkRows, OkRows>>, <<Status, OkRows>>}, sec \in {OkRows, Status} :
        /\ calls < MaxCalls
        /\ LET r == get_all_schema_context(_query_cache, now, <<h, h, h>>, sec)
           IN /\ _query_cache' = r.cache
              /\ sqlOut' = CallOut(r)
        /\ calls' = calls + 1
        /\ UNCHANGED <<now, fresh, outsideSql>>

SqlTick ==
    /\ now < MaxTicks * TickSeconds
    /\ now' = now + TickSeconds
    /\ UNCHANGED <<_query_cache, fresh, sqlOut, calls, outsideSql>>

NextSql == SqlRawQuery \/ SqlSemantic \/ SqlSchemaContext \/ SqlTick

varsSql == <<_query_cache, now, fresh, sqlOut, calls, outsideSql>>

SpecSql == InitSql /\ [][NextSql]_varsSql

Numerals == {10, 20, 100, 500, 9999}
IsNumeral(a) == \E n \in Numerals : ToString(n) = a
NumVal(a) == CHOOSE n \in Numerals : ToString(n) = a

BeginsWithSelect(query) ==
    LET u == upper(strip(query)) IN u # <<>> /\ u[1] = "SELECT"

HasLimitAtMost500(query) ==
    \E i \in 1..Len(query) :
        /\ UpperAtom(query[i]) = "LIMIT"
        /\ i + 2 <= Len(query)
        /\ IsNumeral(query[i + 2])
        /\ NumVal(query[i + 2]) <= SAFETY_LIMIT

\* C1: every statement sent in a POST to /api/sql begins with SELECT once
\* trimmed and uppercased, and contains a LIMIT clause of at most 500.
C1_EveryPostIsSelectWithLimit ==
    \A i \in 1..Len(sqlOut.posts) :
        /\ BeginsWithSelect(sqlOut.posts[i].query)
        /\ HasLimitAtMost500(sqlOut.posts[i].query)


\* ------------------------------------------------------------------------
\* One execute_query call after another, with every outcome of the two HTTP
\* attempts and the clock moving between calls. sqlOut keeps, next to what
\* the call returned, what the upstream was going to do (http) and what the
\* cache held for the key when the call began (age -1: no entry).
\* ------------------------------------------------------------------------
OkMore == [kind |-> "ok", rows |-> <<1, 2>>]
StatusNoJson == [kind |-> "status_nojson", rows |-> <<>>]
OtherFailure == [kind |-> "other", rows |-> <<>>]
AttemptOutcomes == {OkRows, OkMore, Timeout, Status, StatusNoJson, OtherFailure}
\* what the upstream does at the first attempt and, after a timeout, at the second
QueryHttp ==
    {<<first, first>> : first \in AttemptOutcomes \ {Timeout}}
        \cup {<<Timeout, second>> : second \in AttemptOutcomes}

CachedQueries ==
    {<<"SELECT", " ", "x">>,
     <<" ", "select", " ", "x", ";">>,
     <<" ", "select", " ", "x">>,
     <<"SELECT", " ", "x", " ">>,
     <<"SELECT", " ", "y", " ", "LIMIT", " ", "10">>}

EntryAge(cache, key, t) ==
    IF HasKey(cache, key) THEN t - cache[IndexOf(cache, key)].timestamp ELSE -1

QueryCalled(r, cache, key, t, use_cache, http) ==
    [raised |-> r.raised, value |-> r.value, posts |-> r.posts, http |-> http,
     use_cache |-> use_cache, t |-> t,
     age |-> EntryAge(cache, key, t),
     stored |-> IF HasKey(cache, key) THEN cache[IndexOf(cache, key)].result ELSE None,
     age_after |-> EntryAge(r.cache, key, t)]

InitQuery ==
    /\ _query_cache = <<>>
    /\ now = 0
    /\ fresh = 0
    /\ sqlOut = NoCall
    /\ calls = 0
    /\ OutsideSqlIdle

QueryCall ==
    \E q \in CachedQueries, use_cache \in BOOLEAN, http \in QueryHttp :
        /\ calls < MaxCalls
        /\ \E r \in {execute_query(_query_cache, now, "researchers", q, DEFAULT_LIMIT,
                                   use_cache, http)} :
              /\ _query_cache' = r.cache
              /\ sqlOut' = [query |-> q]
                              @@ QueryCalled(r, _query_cache,
                                             _cache_key("researchers",
                                                        AddLimit(q, DEFAULT_LIMIT)),
                                             now, use_cache, http)
        /\ calls' = calls + 1
        /\ UNCHANGED <<now, fresh, outsideSql>>

QueryTick ==
    /\ now < MaxTicks * TickSeconds
    /\ now' = now + TickSeconds
    /\ UNCHANGED <<_query_cache, fresh, sqlOut, calls, outsideSql>>

NextQuery == QueryCall \/ QueryTick

varsQuery == <<_query_cache, now, fresh, sqlOut, calls, outsideSql>>

SpecQuery == InitQuery /\ [][NextQuery]_varsQuery

Called == "http" \in DOMAIN sqlOut
Attempted == Len(sqlOut.posts)
IsErrorStatus(out) == out.kind \in {"status", "status_nojson"}

\* C11: one execute_query call makes at most 2 HTTP attempts, the second
\* only after the first timed out; an HTTP error status on an attempt ends
\* the call there with an error carrying the upstream detail; two timeouts
\* in a row end it with the timed-out error.
C11_RetryOnlyOnTimeout ==
    Called =>
        /\ Attempted <= MAX_RETRIES
        /\ Attempted = 2 => sqlOut.http[1].kind = "timeout"
        /\ \A i \in 1..Attempted :
              IsErrorStatus(sqlOut.http[i]) =>
                  /\ Attempted = i
                  /\ sqlOut.raised
                  /\ sqlOut.value = Error("Query error: detail")
        /\ Attempted = 2 /\ sqlOut.http[2].kind = "timeout" =>
              /\ sqlOut.raised
              /\ sqlOut.value = Error("Query timed out after 2 attempts")

EntryHeld == sqlOut.age >= 0 /\ sqlOut.age < CACHE_TTL
EntryExpired == sqlOut.age >= CACHE_TTL

\* C12: with use_cache an execute_query call returns the stored result and
\* sends nothing exactly when the cache holds an entry for the key that is
\* less than 300 s old; an entry of 300 s or more is not returned, and after
\* the call it is gone (or replaced by the result fetched in this call).
C12_CacheHitIffEntryYoungerThanTtl ==
    Called /\ sqlOut.use_cache =>
        /\ (~sqlOut.raised /\ Attempted = 0) <=> EntryHeld
        /\ EntryHeld => sqlOut.value = sqlOut.stored
        /\ EntryExpired =>
              /\ Attempted >= 1
              /\ sqlOut.age_after \in {-1, 0}
              /\ sqlOut.age_after = 0 <=> ~sqlOut.raised

C12_HitOnAgedEntry ==
    /\ Called
    /\ sqlOut.use_cache
    /\ EntryHeld
    /\ sqlOut.age > 0
    /\ Attempted = 0
    /\ sqlOut.value.rows # <<>>


\* ------------------------------------------------------------------------
\* semantic_cache.py: the response cache table
\*   a row is [id, question, answer, tool_calls, insights, cached_at]; the sequence is in rowid
\*   order; out is what the store does during the call
\* ------------------------------------------------------------------------
_question_id(question) == lower(strip(question))

\* position of a row in ORDER BY cached_at ASC (ties in rowid order)
CachedAtRank(table, row) ==
    Cardinality({j \in 1..Len(table) :
        \/ table[j].cached_at < row.cached_at
        \/ /\ table[j].cached_at = row.cached_at
           /\ j < (CHOOSE i \in 1..Len(table) : table[i].id = row.id)})

_cleanup_old_entries(table) ==
    LET Survives(row) == CachedAtRank(table, row) >= MAX_CACHE_ENTRIES \div 2
    IN SelectSeq(table, Survives)

\* an INSERT that ignores the primary key
InsertAlways(table, row) == Append(table, row)

InsertOrReplace(table, row) ==
    LET Other(r) == r.id # row.id
    IN Append(SelectSeq(table, Other), row)

StoreOutcomes == {"ok", "connect_error", "delete_error", "delete_commit_error",
                  "insert_error"}

\* the table after cache_response(question, answer, ...) at time t
\*   connect_error        the model, the connection or the count raises
\*   delete_error         the DELETE of the cleanup raises (caught there)
\*   delete_commit_error  the commit of the cleanup raises (caught there);
\*                        the DELETE stays in the open transaction
\*   insert_error         the encoding, the INSERT or its commit raises
\* a writer that stores the answer whole
CacheResponseWhole(table, t, question, answer, tool_calls, insights, out) ==
    IF out # "ok" THEN table
    ELSE InsertOrReplace(table, [id |-> _question_id(question),
                                 question |-> question,
                                 answer |-> answer,
                                 tool_calls |-> FirstN(tool_calls, 20),
                                 insights |-> FirstN(insights, 10),
                                 cached_at |-> t])

cache_response(table, t, question, answer, tool_calls, insights, out) ==
    IF out = "connect_error" THEN table
    ELSE LET full == Len(table) >= MAX_CACHE_ENTRIES
             cleaned == IF full /\ out # "delete_error"
                        THEN _cleanup_old_entries(table) ELSE table
             committed == IF full /\ out = "delete_commit_error" THEN table ELSE cleaned
         IN IF out = "insert_error" THEN committed
            ELSE InsertOrReplace(cleaned, [id |-> _question_id(question),
                                           question |-> question,
                                           answer |-> FirstN(answer, ANSWER_CHARS),
                                           tool_calls |-> FirstN(tool_calls, 20),
                                           insights |-> FirstN(insights, 10),
                                           cached_at |-> t])

\* ------------------------------------------------------------------------
\* The response cache written by one request after another
\* ------------------------------------------------------------------------
RespQuestion(n) == <<"q", ToString(n)>>
SameQuestionAgain(question) == <<" ">> \o upper(question) \o <<"\n">>
Inserted(out) == out \notin {"connect_error", "insert_error"}

outsideResp == <<AGGREGATION_CACHE, routeOut, cacheOut, agentVars, tasks>>

InitResp ==
    /\ response_cache = <<>>
    /\ now = 0
    /\ fresh = 0
    /\ _query_cache = <<>>
    /\ sqlOut = NoCall
    /\ calls = 0
    /\ AGGREGATION_CACHE = <<>>
    /\ routeOut = NoRoute
    /\ cacheOut = NoCacheCall
    /\ AgentIdle
    /\ tasks = NoTasks

\* a question never written before
RespWriteFresh ==
    \E out \in StoreOutcomes :
        /\ fresh < MaxRespFresh
        /\ response_cache' = cache_response(response_cache, now,
                                            RespQuestion(fresh + 1), <<"a">>, <<>>, <<>>, out)
        /\ fresh' = IF Inserted(out) THEN fresh + 1 ELSE fresh
        /\ now' = IF Inserted(out) THEN now + 1 ELSE now
        /\ UNCHANGED <<_query_cache, sqlOut, calls, outsideResp>>

\* the question of the oldest or of the newest row, written again in
\* another letter case
RespWriteAgain ==
    \E i \in {1, Len(response_cache)}, out \in StoreOutcomes :
        /\ calls < MaxRepeats
        /\ i \in 1..Len(response_cache)
        /\ Len(response_cache) % MAX_CACHE_ENTRIES <= 1
        /\ response_cache' = cache_response(response_cache, now,
                                 SameQuestionAgain(response_cache[i].question), <<"b">>,
                                 <<>>, <<>>, out)
        /\ calls' = calls + 1
        /\ now' = IF Inserted(out) THEN now + 1 ELSE now
        /\ UNCHANGED <<_query_cache, sqlOut, fresh, outsideResp>>

NextResp == RespWriteFresh \/ RespWriteAgain

varsResp == <<response_cache, now, fresh, _query_cache, sqlOut, calls, outsideResp>>

SpecResp == InitResp /\ [][NextResp]_varsResp

\* C4: after every cache_response call, writes running one after another,
\* the response cache table holds at most 500 rows.
C4_ResponseCacheAtMost500 == Len(response_cache) <= MAX_CACHE_ENTRIES


\* ------------------------------------------------------------------------
\* router.py: the pattern tables. A question is a text of one atom; the
\* regular-expression engine is the table of the (pattern, text) pairs that
\* match and of the groups they capture.
\* ------------------------------------------------------------------------
NoQuery == <<>>

Questions ==
    {"How many patents?",
     "trials by status",
     "how many clinical trials by status",
     "rising stars in immunology",
     "what tables are in patents",
     "hello there",
     "For Epana, which researchers should we talk to?",
     "researchers with patents",
     "Top 900 researchers in oncology"}

RegexMatches ==
    {<<"trials? by status", "trials by status">>,
     <<"trials? by status", "how many clinical trials by status">>,
     <<"how many patents?", "how many patents?">>,
     <<"how many (clinical )?trials?", "how many clinical trials by status">>,
     <<"what tables.*(patents?)", "what tables are in patents">>,
     <<"(rising stars?|hidden gems?|fast[- ]?growing).*(?:in|for|about) (?P<field>[a-zA-Z]+)", "rising stars in immunology">>,
     <<"top (?P<n>\\d+)? ?researchers?.*(?:in|for|about) (?P<field>[a-zA-Z]+)", "top 900 researchers in oncology">>,
     <<"patents?.*(for |from |by )?(?P<company>\\w+)", "how many patents?">>,
     <<"patents?.*(for |from |by )?(?P<company>\\w+)", "what tables are in patents">>,
     <<"patents?.*(for |from |by )?(?P<company>\\w+)", "researchers with patents">>,
     <<"(?P<sponsor>\\w+(?:\\s+\\w+)?)'?s? (?:clinical )?trials?", "how many clinical trials by status">>,
     <<"researchers? (?:with|who have) patents?", "researchers with patents">>}

RegexGroups ==
    {<<"(rising stars?|hidden gems?|fast[- ]?growing).*(?:in|for|about) (?P<field>[a-zA-Z]+)", "rising stars in immunology", "field", "immunology">>,
     <<"top (?P<n>\\d+)? ?researchers?.*(?:in|for|about) (?P<field>[a-zA-Z]+)", "top 900 researchers in oncology", "n", "900">>,
     <<"top (?P<n>\\d+)? ?researchers?.*(?:in|for|about) (?P<field>[a-zA-Z]+)", "top 900 researchers in oncology", "field", "oncology">>,
     <<"patents?.*(for |from |by )?(?P<company>\\w+)", "how many patents?", "company", "s">>,
     <<"patents?.*(for |from |by )?(?P<company>\\w+)", "what tables are in patents", "company", "s">>,
     <<"patents?.*(for |from |by )?(?P<company>\\w+)", "researchers with patents", "company", "s">>,
     <<"(?P<sponsor>\\w+(?:\\s+\\w+)?)'?s? (?:clinical )?trials?", "how many clinical trials by status", "sponsor", "how many">>}

TIER1_PATTERNS ==
    <<[pattern |-> "how many (researchers?|scientists?)", db |-> "researchers",
      query |-> <<"SELECT", " ", "COUNT(*) as count FROM researchers">>],
      [pattern |-> "how many patents?", db |-> "patents",
      query |-> <<"SELECT", " ", "COUNT(*) as count FROM patents">>],
      [pattern |-> "how many grants?", db |-> "grants",
      query |-> <<"SELECT", " ", "COUNT(*) as count FROM grants">>],
      [pattern |-> "how many (companies|portfolio)", db |-> "portfolio",
      query |-> <<"SELECT", " ", "COUNT(*) as count FROM companies">>],
      [pattern |-> "how many (bills?|policies?)", db |-> "policies",
      query |-> <<"SELECT", " ", "COUNT(*) as count FROM bills">>],
      [pattern |-> "total (grant )?funding", db |-> "grants",
      query |-> <<"SELECT", " ", "SUM(total_cost) as total_funding FROM grants WHERE total_cost > 0">>],
      [pattern |-> "how many hidden gems?", db |-> "researchers",
      query |-> <<"SELECT", " ", "COUNT(*) as count FROM researchers WHERE slope > 3 AND h_index BETWEEN 20 AND 60">>],
      [pattern |-> "how many (clinical )?trials?", db |-> "market_data",
      query |-> <<"SELECT", " ", "COUNT(*) as count FROM clinical_trials">>],
      [pattern |-> "how many recruiting trials?", db |-> "market_data",
      query |-> <<"SELECT", " ", "COUNT(*) as count FROM clinical_trials WHERE status = 'RECRUITING'">>],
      [pattern |-> "how many phase ?3 trials?", db |-> "market_data",
      query |-> <<"SELECT", " ", "COUNT(*) as count FROM clinical_trials WHERE phase LIKE '%PHASE3%'">>],
      [pattern |-> "how many completed trials?", db |-> "market_data",
      query |-> <<"SELECT", " ", "COUNT(*) as count FROM clinical_trials WHERE status = 'COMPLETED'">>],
      [pattern |-> "trials? by status", db |-> "market_data",
      query |-> <<"SELECT", " ", "status, COUNT(*) as count FROM clinical_trials GROUP BY status ORDER BY count DESC">>],
      [pattern |-> "trials? by phase", db |-> "market_data",
      query |-> <<"SELECT", " ", "phase, COUNT(*) as count FROM clinical_trials GROUP BY phase ORDER BY count DESC">>],
      [pattern |-> "top sponsors?", db |-> "market_data",
      query |-> <<"SELECT", " ", "sponsor, COUNT(*) as count FROM clinical_trials GROUP BY sponsor ORDER BY count DESC", " ", "LIMIT", " ", "20">>],
      [pattern |-> "what tables.*(researchers?|talent)", db |-> "researchers",
      query |-> NoQuery],
      [pattern |-> "what tables.*(patents?)", db |-> "patents",
      query |-> NoQuery],
      [pattern |-> "what tables.*(grants?)", db |-> "grants",
      query |-> NoQuery],
      [pattern |-> "what tables.*(portfolio)", db |-> "portfolio",
      query |-> NoQuery],
      [pattern |-> "what tables.*(policies?|bills?)", db |-> "policies",
      query |-> NoQuery],
      [pattern |-> "what tables.*(trials?|market|clinical)", db |-> "market_data",
      query |-> NoQuery]>>

CACHED_AGGREGATIONS ==
    <<[key |-> "trials_by_status", pattern |-> "trials? by status", db |-> "market_data",
      query |-> <<"SELECT", " ", "status, COUNT(*) as count FROM clinical_trials GROUP BY status ORDER BY count DESC">>],
      [key |-> "trials_by_phase", pattern |-> "trials? by phase", db |-> "market_data",
      query |-> <<"SELECT", " ", "phase, COUNT(*) as count FROM clinical_trials GROUP BY phase ORDER BY count DESC">>],
      [key |-> "trials_by_sponsor", pattern |-> "top sponsors?", db |-> "market_data",
      query |-> <<"SELECT", " ", "sponsor, COUNT(*) as count FROM clinical_trials GROUP BY sponsor ORDER BY count DESC", " ", "LIMIT", " ", "20">>]>>

TIER2_PATTERNS ==
    <<[pattern |-> "(rising stars?|hidden gems?|fast[- ]?growing).*(?:in|for|about) (?P<field>[a-zA-Z]+)", db |-> "researchers",
      body |-> "tier2_1",
      params |-> <<"field">>, limit |-> "10"],
      [pattern |-> "top (?P<n>\\d+)? ?researchers?.*(?:in|for|about) (?P<field>[a-zA-Z]+)", db |-> "researchers",
      body |-> "tier2_2",
      params |-> <<"field">>, limit |-> ""],
      [pattern |-> "patents?.*(for |from |by )?(?P<company>\\w+)", db |-> "patents",
      body |-> "tier2_3",
      params |-> <<"company">>, limit |-> "10"],
      [pattern |-> "grants?.*(in |for |about )?(?P<field>\\w+)", db |-> "grants",
      body |-> "tier2_4",
      params |-> <<"field">>, limit |-> "10"],
      [pattern |-> "(what is|tell me about|info on) (?P<company>\\w+)", db |-> "portfolio",
      body |-> "tier2_5",
      params |-> <<"company">>, limit |-> "1"],
      [pattern |-> "(?:clinical )?trials? (?:for|treating|in) (?P<condition>[a-zA-Z\\s]+?)(?:\\?|$|,| and)", db |-> "market_data",
      body |-> "tier2_6",
      params |-> <<"condition">>, limit |-> "15"],
      [pattern |-> "(?P<sponsor>\\w+(?:\\s+\\w+)?)'?s? (?:clinical )?trials?", db |-> "market_data",
      body |-> "tier2_7",
      params |-> <<"sponsor">>, limit |-> "15"],
      [pattern |-> "recruiting (?:clinical )?trials? (?:for|in|treating) (?P<field>[a-zA-Z\\s]+)", db |-> "market_data",
      body |-> "tier2_8",
      params |-> <<"field">>, limit |-> "15"],
      [pattern |-> "phase ?(?P<phase>\\d) (?:clinical )?trials? (?:for|in|treating) (?P<condition>[a-zA-Z\\s]+)", db |-> "market_data",
      body |-> "tier2_9",
      params |-> <<"phase", "condition">>, limit |-> "15"],
      [pattern |-> "top (?P<n>\\d+)? ?sponsors? (?:by|with) (?:most )?trials?", db |-> "market_data",
      body |-> "tier2_10",
      params |-> <<>>, limit |-> ""],
      [pattern |-> "(?:clinical )?trials? (?:started|posted|from|in) (?P<year>20\\d{2})", db |-> "market_data",
      body |-> "tier2_11",
      params |-> <<"year">>, limit |-> "20"]>>

CROSS_DB_PATTERNS ==
    <<"researchers? (?:with|who have) patents?",
      "(?:clinical )?trials? (?:by|from|for) (?:our )?portfolio (?:companies)?",
      "grants? (?:related to|for|in) (?:active|recruiting) (?:clinical )?trials?">>

DetectedDatabases ==
    {<<"how many patents?", <<"patents">>>>,
     <<"trials by status", <<"market_data">>>>,
     <<"how many clinical trials by status", <<"market_data">>>>,
     <<"rising stars in immunology", <<"researchers">>>>,
     <<"what tables are in patents", <<"patents">>>>,
     <<"hello there", <<>>>>,
     <<"for epana, which researchers should we talk to?", <<"researchers">>>>,
     <<"researchers with patents", <<"researchers", "patents">>>>,
     <<"top 900 researchers in oncology", <<"researchers">>>>}

DetectedIntents ==
    {<<"how many patents?", <<"count">>>>,
     <<"trials by status", <<"aggregate">>>>,
     <<"how many clinical trials by status", <<"count", "aggregate">>>>,
     <<"rising stars in immunology", <<"general">>>>,
     <<"what tables are in patents", <<"general">>>>,
     <<"hello there", <<"general">>>>,
     <<"for epana, which researchers should we talk to?", <<"general">>>>,
     <<"researchers with patents", <<"filter", "cross_db">>>>,
     <<"top 900 researchers in oncology", <<"top_n">>>>}

re_search(pattern, text) == Len(text) = 1 /\ <<pattern, text[1]>> \in RegexMatches

group(pattern, text, name) ==
    (CHOOSE g \in RegexGroups : g[1] = pattern /\ g[2] = text[1] /\ g[3] = name)[4]

detect_databases(text) ==
    IF \E d \in DetectedDatabases : Len(text) = 1 /\ d[1] = text[1]
    THEN (CHOOSE d \in DetectedDatabases : d[1] = text[1])[2] ELSE <<>>

detect_intent(text) ==
    IF \E d \in DetectedIntents : Len(text) = 1 /\ d[1] = text[1]
    THEN (CHOOSE d \in DetectedIntents : d[1] = text[1])[2] ELSE <<"general">>

\* the statement a Tier 2 pattern builds from its match
RECURSIVE LikeParams(_, _, _)
LikeParams(p, text, k) ==
    IF k > Len(p.params) THEN <<>>
    ELSE <<" ", "LIKE", " ", group(p.pattern, text, p.params[k])>>
         \o LikeParams(p, text, k + 1)

query_fn(p, text) ==
    LET n == IF p.limit # "" THEN p.limit
             ELSE IF group(p.pattern, text, "n") # "" THEN group(p.pattern, text, "n")
             ELSE "10"
    IN <<"\n", "SELECT", " ", p.body>> \o LikeParams(p, text, 1)
       \o <<" ", "LIMIT", " ", n, "\n">>

\* ------------------------------------------------------------------------
\* router.py: classify_question, route_question
\*   up: what the upstream does at each HTTP call of the classification, in
\*       call order (calls past the last entry get the last entry)
\*   ctx: the state threaded through the classification
\* ------------------------------------------------------------------------
Answer(format, rows, text) == [format |-> format, rows |-> rows, text |-> text]
NoAnswer == Answer("none", <<>>, <<>>)

EntityType(db) ==
    CASE db = "researchers" -> "researcher"
      [] db = "patents" -> "patent"
      [] db = "grants" -> "grant"
      [] db = "policies" -> "policy"
      [] db = "portfolio" -> "company"
      [] db = "market_data" -> "clinical_trial"
      [] OTHER -> ""

\* a row is the value of its id column, 0 when the row has none
extract_entities_from_rows(db, rows) ==
    LET HasId(id) == id # 0
        linked == IF EntityType(db) = "" THEN <<>> ELSE SelectSeq(FirstN(rows, 10), HasId)
    IN [i \in 1..Len(linked) |-> [type |-> EntityType(db), id |-> linked[i]]]

format_aggregation_response(rows) == Answer("aggregation", FirstN(rows, 15), <<>>)
format_tier1_value(rows) == Answer("value", <<rows[1]>>, <<>>)
format_tier2_response(rows, db) ==
    IF db = "portfolio" THEN Answer("card", <<rows[1]>>, <<db>>)
    ELSE Answer("table", FirstN(rows, 10), <<db>>)

NoResponse == [answer |-> NoAnswer, data |-> <<>>]

\* a reader that still returns an entry of exactly CACHE_TTL_SECONDS
GetCachedAggregationInclusive(agg, key, t) ==
    IF HasKey(agg, key) /\ t - agg[IndexOf(agg, key)].timestamp <= CACHE_TTL_SECONDS
    THEN agg[IndexOf(agg, key)].data
    ELSE NoResponse

\* a reader that never lets an entry expire
GetCachedAggregationForever(agg, key, t) ==
    IF HasKey(agg, key) THEN agg[IndexOf(agg, key)].data ELSE NoResponse

get_cached_aggregation(agg, key, t) ==
    IF HasKey(agg, key) /\ t - agg[IndexOf(agg, key)].timestamp < CACHE_TTL_SECONDS
    THEN agg[IndexOf(agg, key)].data
    ELSE NoResponse

set_cached_aggregation(agg, key, data, t) ==
    DictSet(agg, [key |-> key, data |-> data, timestamp |-> t])

list_tables(db_name, out) ==
    IF db_name \notin SERVICE_URLS
    THEN [raised |-> TRUE, value |-> Error("Unknown database")]
    ELSE IF out.kind = "ok"
    THEN [raised |-> FALSE, value |-> Result(out.rows)]
    ELSE [raised |-> TRUE, value |-> Error("Failed to list tables")]

UpAt(up, ctx) == up[Min(ctx.used + 1, Len(up))]

\* ctx after an execute_query call that returned or raised r
\* how the query of a matched pattern ended
QueryOutcome(r) ==
    IF r.raised THEN "raised" ELSE IF r.value.rows = <<>> THEN "empty" ELSE "rows"

RouterQueried(ctx, r) ==
    [r |-> r,
     ctx |-> [ctx EXCEPT !.cache = r.cache,
                         !.posts = @ \o r.posts,
                         !.used = IF r.posts = <<>> THEN @ ELSE @ + 1,
                         !.failed = @ \/ r.raised,
                         !.outcomes = Append(@, QueryOutcome(r))]]

\* ctx once the pattern at position i of a list has matched the question
Matched(ctx, list, i) == [ctx EXCEPT !.matched = Append(@, [list |-> list, index |-> i])]

RouterQuery(ctx, t, db, query, up) ==
    RouterQueried(ctx, execute_query(ctx.cache, t, db, query, DEFAULT_LIMIT, TRUE,
                                     UpAt(up, ctx)))

RouterResult(answer, data, query, entities) ==
    [kind |-> "answer", answer |-> answer, data |-> data, query |-> query,
     entities |-> entities, routing_hint |-> "", detected_dbs |-> <<>>,
     intents |-> <<>>, suggested_queries |-> FALSE]

RouterHints(hint, dbs, intents, suggested) ==
    [kind |-> "hints", answer |-> NoAnswer, data |-> <<>>, query |-> <<>>,
     entities |-> <<>>, routing_hint |-> hint, detected_dbs |-> dbs,
     intents |-> intents, suggested_queries |-> suggested]

RouterNone ==
    [kind |-> "none", answer |-> NoAnswer, data |-> <<>>, query |-> <<>>,
     entities |-> <<>>, routing_hint |-> "", detected_dbs |-> <<>>,
     intents |-> <<>>, suggested_queries |-> FALSE]

Decided(tier, result, ctx) == [decided |-> TRUE, tier |-> tier, result |-> result, ctx |-> ctx]
Undecided(ctx) == [decided |-> FALSE, tier |-> 0, result |-> RouterNone, ctx |-> ctx]

\* the cached aggregations, in the order of CACHED_AGGREGATIONS
RECURSIVE AggFrom(_, _, _, _, _)
RECURSIVE AggQueried(_, _, _, _, _, _)
AggQueried(k, ql, c, rows, t, up) ==
    IF ~c.r.raised /\ rows # <<>>
    THEN Decided(1, RouterResult(format_aggregation_response(rows), rows, <<>>, <<>>),
                 [c.ctx EXCEPT !.agg =
                     set_cached_aggregation(@, CACHED_AGGREGATIONS[k].key,
                         [answer |-> format_aggregation_response(rows), data |-> rows], t)])
    ELSE AggFrom(k + 1, ql, c.ctx, t, up)

AggMatched(k, ql, a, cached, ctx, t, up) ==
    IF cached # NoResponse
    THEN Decided(1, RouterResult(cached.answer, cached.data, <<>>, <<>>),
                 [Matched(ctx, "aggregation", k) EXCEPT !.outcomes = Append(@, "cached")])
    ELSE \* c and its rows are bound once
         CHOOSE d \in {AggQueried(k, ql, c, c.r.value.rows, t, up) :
                          c \in {RouterQuery(Matched(ctx, "aggregation", k), t, a.db,
                                              a.query, up)}} : TRUE

AggFrom(k, ql, ctx, t, up) ==
    IF k > Len(CACHED_AGGREGATIONS) THEN Undecided(ctx)
    ELSE IF ~re_search(CACHED_AGGREGATIONS[k].pattern, ql)
    THEN AggFrom(k + 1, ql, ctx, t, up)
    ELSE AggMatched(k, ql, CACHED_AGGREGATIONS[k],
                    get_cached_aggregation(ctx.agg, CACHED_AGGREGATIONS[k].key, t),
                    ctx, t, up)

Tier1Tables(p, lt, c) ==
    IF lt.raised THEN Decided(3, RouterNone, c)
    ELSE Decided(1, RouterResult(Answer("tables", lt.value.rows, <<p.db>>),
                                 lt.value.rows, <<>>, <<>>), c)

RECURSIVE Tier1From(_, _, _, _, _)
Tier1Queried(i, ql, c, rows, t, up) ==
    IF c.r.raised THEN Decided(3, RouterNone, c.ctx)
    ELSE IF rows # <<>>
    THEN Decided(1, RouterResult(format_tier1_value(rows), <<rows[1]>>, <<>>, <<>>), c.ctx)
    ELSE Tier1From(i + 1, ql, c.ctx, t, up)

Tier1Matched(i, ql, p, ctx, t, up) ==
    IF p.query = NoQuery
    THEN CHOOSE d \in {Tier1Tables(p, lt, [Matched(ctx, "tier1", i) EXCEPT
                                               !.used = @ + 1,
                                               !.failed = @ \/ lt.raised,
                                               !.outcomes = Append(@, QueryOutcome(lt))]) :
                          lt \in {list_tables(p.db, UpAt(up, ctx)[1])}} : TRUE
    ELSE CHOOSE d \in {Tier1Queried(i, ql, c, c.r.value.rows, t, up) :
                          c \in {RouterQuery(Matched(ctx, "tier1", i), t, p.db, p.query,
                                              up)}} : TRUE

Tier1From(i, ql, ctx, t, up) ==
    IF i > Len(TIER1_PATTERNS) THEN Undecided(ctx)
    ELSE IF ~re_search(TIER1_PATTERNS[i].pattern, ql) THEN Tier1From(i + 1, ql, ctx, t, up)
    ELSE Tier1Matched(i, ql, TIER1_PATTERNS[i], ctx, t, up)

RECURSIVE Tier2From(_, _, _, _, _)
Tier2Queried(i, ql, p, query, c, rows, t, up) ==
    IF c.r.raised THEN Decided(3, RouterNone, c.ctx)
    ELSE IF rows # <<>>
    THEN Decided(2, RouterResult(format_tier2_response(rows, p.db), rows, strip(query),
                                 extract_entities_from_rows(p.db, rows)),
                 c.ctx)
    ELSE Tier2From(i + 1, ql, c.ctx, t, up)

Tier2Matched(i, ql, p, query, ctx, t, up) ==
    CHOOSE d \in {Tier2Queried(i, ql, p, query, c, c.r.value.rows, t, up) :
                     c \in {RouterQuery(Matched(ctx, "tier2", i), t, p.db, query,
                                         up)}} : TRUE

Tier2From(i, ql, ctx, t, up) ==
    IF i > Len(TIER2_PATTERNS) THEN Undecided(ctx)
    ELSE IF ~re_search(TIER2_PATTERNS[i].pattern, ql) THEN Tier2From(i + 1, ql, ctx, t, up)
    ELSE Tier2Matched(i, ql, TIER2_PATTERNS[i], query_fn(TIER2_PATTERNS[i], ql), ctx, t, up)

Tier3Hints(ql, intents, detected_dbs, ctx) ==
    IF (\E k \in 1..Len(intents) : intents[k] = "cross_db") \/ Len(detected_dbs) > 1
    THEN IF \E k \in 1..Len(CROSS_DB_PATTERNS) : re_search(CROSS_DB_PATTERNS[k], ql)
         THEN Decided(3, RouterHints("cross_db", detected_dbs, intents, TRUE), ctx)
         ELSE Decided(3, RouterHints("complex", detected_dbs, intents, FALSE), ctx)
    ELSE IF detected_dbs # <<>> \/ intents # <<"general">>
    THEN Decided(3, RouterHints("complex", detected_dbs, intents, FALSE), ctx)
    ELSE Decided(3, RouterNone, ctx)

Tier3(ql, ctx) == Tier3Hints(ql, detect_intent(ql), detect_databases(ql), ctx)

AfterTier2(ql, c) == IF c.decided THEN c ELSE Tier3(ql, c.ctx)

AfterTier1(ql, b, t, up) ==
    IF b.decided THEN b
    ELSE CHOOSE d \in {AfterTier2(ql, c) : c \in {Tier2From(1, ql, b.ctx, t, up)}} : TRUE

AfterAggregations(ql, a, t, up) ==
    IF a.decided THEN a
    ELSE CHOOSE d \in {AfterTier1(ql, b, t, up) :
                          b \in {Tier1From(1, ql, a.ctx, t, up)}} : TRUE

classify_question(question, agg, cache, t, up) ==
    CHOOSE d \in {AfterAggregations(strip(lower(question)), a, t, up) :
                     a \in {AggFrom(1, strip(lower(question)),
                                    [agg |-> agg, cache |-> cache, posts |-> <<>>,
                                     used |-> 0, failed |-> FALSE, matched |-> <<>>,
                                     outcomes |-> <<>>], t, up)}} : TRUE

\* a response that never asks for the agent
RouteResponseWithoutAgent(c) ==
    [tier |-> IF c.tier \in {1, 2} THEN c.tier ELSE 3, tier_name |-> "instant",
     answer |-> c.result.answer, data |-> c.result.data, query |-> c.result.query,
     entities |-> c.result.entities, needs_agent |-> FALSE, routing_hints |-> c.result]

\* the dict route_question builds from the classification c
RouteResponse(c) ==
    CASE c.tier = 1 ->
           [tier |-> 1, tier_name |-> "instant", answer |-> c.result.answer, data |-> c.result.data,
            query |-> <<>>, entities |-> <<>>, needs_agent |-> FALSE,
            routing_hints |-> RouterNone]
      [] c.tier = 2 ->
           [tier |-> 2, tier_name |-> "fast", answer |-> c.result.answer, data |-> c.result.data,
            query |-> c.result.query, entities |-> c.result.entities,
            needs_agent |-> FALSE, routing_hints |-> RouterNone]
      [] OTHER ->
           [tier |-> 3, tier_name |-> "agent", answer |-> NoAnswer, data |-> <<>>, query |-> <<>>,
            entities |-> <<>>, needs_agent |-> TRUE, routing_hints |-> c.result]

Routed(question, c) ==
    [called |-> TRUE, question |-> question, response |-> RouteResponse(c),
     agg |-> c.ctx.agg, cache |-> c.ctx.cache, posts |-> c.ctx.posts,
     failed |-> c.ctx.failed, matched |-> c.ctx.matched, outcomes |-> c.ctx.outcomes]

\* route_question with what the call did to the caches
route_question(question, agg, cache, t, up) ==
    CHOOSE d \in {Routed(question, c) :
                     c \in {classify_question(question, agg, cache, t, up)}} : TRUE

\* ------------------------------------------------------------------------
\* The router answering one question after another
\* ------------------------------------------------------------------------
OkTwo == [kind |-> "ok", rows |-> <<1, 2>>]
OkNone == [kind |-> "ok", rows |-> <<>>]
RouteHttp == {<<OkTwo, OkTwo>>, <<OkNone, OkNone>>, <<Status, OkTwo>>, <<Timeout, Timeout>>}
\* the outcome of the first HTTP call of a classification and of the later ones
RouteUps == RouteHttp \X RouteHttp

QuestionTexts == {<<q>> : q \in Questions} \cup {<<" ", "How many patents?", "\n">>}

\* the caches of a fresh process, or as an answered "trials by status" leaves
\* them at time 0
WarmStart == route_question(<<"trials by status">>, <<>>, <<>>, 0, <<<<OkTwo, OkTwo>>>>)

InitRouter ==
    /\ \E warm \in BOOLEAN :
          /\ AGGREGATION_CACHE = IF warm THEN WarmStart.agg ELSE <<>>
          /\ _query_cache = IF warm THEN WarmStart.cache ELSE <<>>
    /\ now = 0
    /\ routeOut = NoRoute
    /\ calls = 0
    /\ fresh = 0
    /\ sqlOut = NoCall
    /\ response_cache = <<>>
    /\ cacheOut = NoCacheCall
    /\ AgentIdle
    /\ tasks = NoTasks

RouteQuestion ==
    \E question \in QuestionTexts, up \in RouteUps :
        /\ calls < MaxRoutes
        /\ \E r \in {route_question(question, AGGREGATION_CACHE, _query_cache, now, up)} :
              /\ routeOut' = [r EXCEPT !.agg = <<>>, !.cache = <<>>]
              /\ AGGREGATION_CACHE' = r.agg
              /\ _query_cache' = r.cache
        /\ calls' = calls + 1
        /\ UNCHANGED <<now, fresh, sqlOut, response_cache, cacheOut, agentVars, tasks>>

RouteTick ==
    /\ now < MaxTicks * TickSeconds
    /\ now' = now + TickSeconds
    /\ UNCHANGED <<AGGREGATION_CACHE, _query_cache, routeOut, calls, fresh, sqlOut,
                   response_cache, cacheOut, agentVars, tasks>>

NextRouter == RouteQuestion \/ RouteTick

varsRouter == <<AGGREGATION_CACHE, _query_cache, now, routeOut, calls, fresh, sqlOut,
                response_cache, cacheOut, agentVars, tasks>>

SpecRouter == InitRouter /\ [][NextRouter]_varsRouter

\* C2: when an upstream SQL or list_tables call made for a matched cached
\* aggregation, Tier 1 or Tier 2 pattern fails, route_question answers Tier 3
\* (needs_agent): it never answers tier 1 or tier 2 after such a failure.
C2_UpstreamFailureYieldsTier3 ==
    routeOut.called /\ routeOut.failed
        => routeOut.response.tier = 3 /\ routeOut.response.needs_agent

\* C16: for every non-empty question and every upstream behaviour (rows,
\* empty result, timeout, error status) route_question returns a response
\* whose tier is 1, 2 or 3 and whose needs_agent is true exactly when the
\* tier is 3; tiers 1 and 2 carry an answer, tier 3 carries none.
C16_TierIsOneTwoOrThree ==
    routeOut.called =>
        /\ routeOut.question # <<>>
        /\ routeOut.response.tier \in {1, 2, 3}
        /\ routeOut.response.needs_agent <=> routeOut.response.tier = 3
        /\ routeOut.response.tier \in {1, 2} <=> routeOut.response.answer # NoAnswer

C16_AgentAfterTwoTimeouts ==
    /\ routeOut.called
    /\ routeOut.failed
    /\ Len(routeOut.posts) = MAX_RETRIES
    /\ routeOut.response.tier = 3
    /\ routeOut.response.needs_agent

\* ------------------------------------------------------------------------
\* The router asked the same question twice, from two starting points
\* ------------------------------------------------------------------------
\* the entries of a cache that a reader at time t still returns
LiveEntries(cache, t, ttl) ==
    LET Live(entry) == t - entry.timestamp < ttl
    IN SelectSeq(cache, Live)

RouteEnv(kind, agg, cache, t, up) ==
    [kind |-> kind, agg |-> agg, cache |-> cache, t |-> t, up |-> up]

\* the starting point of the first call, and those of the second: the same
\* caches without their expired entries, other upstream answers, a query
\* cache that was emptied, a later time
FirstEnvs == {RouteEnv("first", AGGREGATION_CACHE, _query_cache, now, up) : up \in RouteUps}
SecondEnvs(e) ==
    {RouteEnv("live_entries", LiveEntries(e.agg, e.t, CACHE_TTL_SECONDS),
              LiveEntries(e.cache, e.t, CACHE_TTL), e.t, e.up),
     RouteEnv("no_query_cache", e.agg, <<>>, e.t, e.up),
     RouteEnv("later", e.agg, e.cache, e.t + CACHE_TTL_SECONDS, e.up)}
    \cup {RouteEnv("other_upstream", e.agg, e.cache, e.t, <<h, h>>) :
             h \in {g \in RouteHttp : <<g, g>> # e.up}}

RouteIn(question, e) == route_question(question, e.agg, e.cache, e.t, e.up)

RouteTwice ==
    \E question \in QuestionTexts, e1 \in FirstEnvs :
        \E e2 \in SecondEnvs(e1) :
            /\ ~routeOut.called
            /\ \E r1 \in {RouteIn(question, e1)}, r2 \in {RouteIn(question, e2)} :
                  /\ routeOut' = [called |-> TRUE, question |-> question,
                                  first |-> e1, second |-> e2,
                                  response |-> r1.response, again |-> r2.response,
                                  failed |-> r1.failed]
                  /\ AGGREGATION_CACHE' = r1.agg
                  /\ _query_cache' = r1.cache
            /\ calls' = calls + 1
            /\ UNCHANGED <<now, fresh, sqlOut, response_cache, cacheOut, agentVars, tasks>>

NextTwice == RouteTwice \/ RouteTick

SpecTwice == InitRouter /\ [][NextTwice]_varsRouter

AskedTwice == routeOut.called /\ "again" \in DOMAIN routeOut
SameAnswer(a, b) ==
    /\ a.tier = b.tier
    /\ a.answer = b.answer
    /\ a.data = b.data
    /\ a.entities = b.entities
SameLiveEntries(e1, e2) ==
    /\ LiveEntries(e1.agg, e1.t, CACHE_TTL_SECONDS) = LiveEntries(e2.agg, e2.t, CACHE_TTL_SECONDS)
    /\ LiveEntries(e1.cache, e1.t, CACHE_TTL) = LiveEntries(e2.cache, e2.t, CACHE_TTL)

\* C15 as stated: two calls of route_question with the same question that
\* start from the same aggregation-cache state return the same tier, answer,
\* data and entities.
C15_SameAggregationCacheSameAnswer ==
    AskedTwice /\ routeOut.first.agg = routeOut.second.agg
        => SameAnswer(routeOut.response, routeOut.again)

\* C15 amended: two calls of route_question with the same question that start
\* from aggregation and query caches with the same unexpired entries and that
\* receive the same upstream answers return the same tier, answer, data and
\* entities.
C15_SameLiveEntriesAndUpstreamSameAnswer ==
    AskedTwice /\ SameLiveEntries(routeOut.first, routeOut.second)
               /\ routeOut.first.up = routeOut.second.up
        => SameAnswer(routeOut.response, routeOut.again)

C15_ExpiredEntriesDropped ==
    /\ AskedTwice
    /\ routeOut.second.kind = "live_entries"
    /\ routeOut.first.agg # routeOut.second.agg
    /\ routeOut.first.cache # routeOut.second.cache
    /\ routeOut.response.tier = 1
    /\ routeOut.again.tier = 1

\* ------------------------------------------------------------------------
\* semantic_cache.py: get_cached_response
\*   the embedding model is a fixture: two questions that differ only in
\*   letter case and surrounding whitespace embed alike; a question of three
\*   atoms or more whose third atom is "rephrased" ("restated", "reworded")
\*   lies at 0.8000 (0.8004, 0.7996) from the questions that begin with the
\*   same two atoms; any other pair lies at 0.3000. Similarities are counted
\*   in ten-thousandths.
\* ------------------------------------------------------------------------
Closeness(q) ==
    IF Len(q) < 3 THEN 10000
    ELSE CASE q[3] = "rephrased" -> 8000
           [] q[3] = "restated" -> 8004
           [] q[3] = "reworded" -> 7996
           [] OTHER -> 10000

SimilarityOf(a, b) ==
    IF a = b THEN 10000
    ELSE IF FirstN(a, 2) = FirstN(b, 2) /\ Closeness(a) # Closeness(b)
    THEN Min(Closeness(a), Closeness(b))
    ELSE 3000

Similarity(a, b) == SimilarityOf(lower(strip(a)), lower(strip(b)))

\* SELECT * FROM cache WHERE cached_at > cutoff ORDER BY cached_at DESC LIMIT 100
NewestRows(valid) ==
    LET Newest(row) ==
            Cardinality({j \in 1..Len(valid) : valid[j].cached_at > row.cached_at})
                < LOOKUP_ROWS
    IN IF Len(valid) <= LOOKUP_ROWS THEN valid ELSE SelectSeq(valid, Newest)

RecentRows(table, t) ==
    LET Valid(row) == row.cached_at > t - SEMANTIC_CACHE_TTL
    IN CHOOSE d \in {NewestRows(valid) : valid \in {SelectSeq(table, Valid)}} : TRUE

\* every row with its similarity to the question
Scored(rows, question) ==
    {[similarity |-> Similarity(question, rows[i].question), row |-> rows[i]] :
        i \in 1..Len(rows)}

\* a loop that keeps the most recent row
NewestMatch(scored) ==
    CHOOSE best \in scored :
        \A other \in scored : other.row.cached_at <= best.row.cached_at

\* the row the loop keeps: the most similar one, the most recent among equals
BestMatch(scored) ==
    CHOOSE best \in scored :
        \A other \in scored :
            \/ other.similarity < best.similarity
            \/ /\ other.similarity = best.similarity
               /\ other.row.cached_at <= best.row.cached_at

NoCached == [hit |-> FALSE]
\* round(similarity, 3); no fixture lies halfway between two thousandths
round3(similarity) == ((similarity + 5) \div 10) * 10

CachedRow(row, similarity) ==
    [hit |-> TRUE, answer |-> row.answer, tool_calls |-> row.tool_calls,
     insights |-> row.insights, cached |-> TRUE, similarity |-> round3(similarity),
     original_question |-> row.question]

LookupOutcomes == {"ok", "error"}

HitAboveThreshold(best) ==
    IF best.similarity <= SIMILARITY_THRESHOLD THEN NoCached
    ELSE CachedRow(best.row, best.similarity)

\* the answer of the lookup once the best row is known
HitOrMiss(best) ==
    IF best.similarity < SIMILARITY_THRESHOLD THEN NoCached
    ELSE CachedRow(best.row, best.similarity)

Lookup(rows, question) ==
    IF rows = <<>> THEN NoCached
    ELSE CHOOSE d \in {HitOrMiss(BestMatch(scored)) :
                         scored \in {Scored(rows, question)}} : TRUE

\* a lookup whose failure is not caught: it answers from whatever it read
GetCachedDespiteFailure(table, t, question, out) ==
    CHOOSE d \in {Lookup(rows, question) : rows \in {RecentRows(table, t)}} : TRUE

\* out "error": the model, the connection or the SELECT raises
get_cached_response(table, t, question, out) ==
    IF out = "error" THEN NoCached
    ELSE CHOOSE d \in {Lookup(rows, question) : rows \in {RecentRows(table, t)}} : TRUE

\* The response cache module the agent imports takes the entities of the run
\* as a fifth argument, stores them with the entry and returns them with a hit.
cache_response_entities(table, t, question, answer, tool_calls, insights, entities, out) ==
    LET stored == cache_response(table, t, question, answer, tool_calls, insights, out)
    IN IF ~Inserted(out) THEN stored
       ELSE [stored EXCEPT ![Len(stored)] = [entities |-> entities] @@ @]

get_cached_response_entities(table, t, question, out) ==
    LET cached == get_cached_response(table, t, question, out)
        Hit(row) == row.question = cached.original_question
    IN IF ~cached.hit THEN cached
       ELSE LET row == Head(SelectSeq(table, Hit))
            IN IF "entities" \in DOMAIN row
               THEN [entities |-> row.entities] @@ cached ELSE cached

\* ------------------------------------------------------------------------
\* The response cache written and asked by one request after another
\* ------------------------------------------------------------------------
Rephrased(question) == question \o <<"rephrased">>
Reworded(question) == question \o <<"reworded">>
Restated(question) == question \o <<"restated">>
ShortAnswer == <<"a">>
LongAnswer == [i \in 1..(ANSWER_CHARS + 1) |-> "x"]
LookupStoreOutcomes == {"ok", "insert_error"}

outsideLookup == <<_query_cache, sqlOut, AGGREGATION_CACHE, routeOut, agentVars, tasks>>

InitLookup ==
    /\ response_cache = <<>>
    /\ cacheOut = NoCacheCall
    /\ now = 0
    /\ fresh = 0
    /\ calls = 0
    /\ _query_cache = <<>>
    /\ sqlOut = NoCall
    /\ AGGREGATION_CACHE = <<>>
    /\ routeOut = NoRoute
    /\ AgentIdle
    /\ tasks = NoTasks

\* cache_response(question, answer, [], []) for a question never written
\* before; the second question may be the first one restated
LookupWrite ==
    \E out \in LookupStoreOutcomes,
       answer \in {ShortAnswer} \cup (IF fresh = MaxLookupFresh - 1 THEN {LongAnswer} ELSE {}),
       question \in {RespQuestion(fresh + 1)}
                       \cup (IF fresh = 1 THEN {Restated(RespQuestion(1))} ELSE {}) :
        /\ fresh < MaxLookupFresh
        /\ calls > 0 => Len(response_cache) < 2
        /\ response_cache' = cache_response(response_cache, now, question,
                                            answer, <<>>, <<>>, out)
        /\ cacheOut' = [op |-> "write", question |-> question,
                        answer |-> answer, out |-> out, t |-> now]
        /\ fresh' = IF Inserted(out) THEN fresh + 1 ELSE fresh
        /\ now' = IF Inserted(out) THEN now + 1 ELSE now
        /\ UNCHANGED <<calls, outsideLookup>>

\* get_cached_response(question): the first question written, a paraphrase of
\* it, or the question of the last call
LookupRead ==
    \E question \in {RespQuestion(1), Rephrased(RespQuestion(1)),
                     Reworded(RespQuestion(1)), RespQuestion(fresh)},
       out \in LookupOutcomes :
        /\ fresh > 0
        /\ cacheOut' = [op |-> "read", question |-> question, out |-> out, t |-> now,
                        result |-> get_cached_response(response_cache, now, question, out),
                        prev |-> IF cacheOut.op = "write" THEN cacheOut ELSE NoCacheCall]
        /\ UNCHANGED <<response_cache, now, fresh, calls, outsideLookup>>

\* time passes between two calls
LookupTick ==
    \E d \in {1, SEMANTIC_CACHE_TTL - 2} :
        /\ calls < MaxTicks
        /\ Len(response_cache) <= 2
        /\ now' = now + d
        /\ calls' = calls + 1
        /\ cacheOut' = NoCacheCall
        /\ UNCHANGED <<response_cache, fresh, outsideLookup>>

NextLookup == LookupWrite \/ LookupRead \/ LookupTick

varsLookup == <<response_cache, cacheOut, now, fresh, calls, outsideLookup>>

SpecLookup == InitLookup /\ [][NextLookup]_varsLookup

Asked == cacheOut.op = "read"
AskedAfterWriting ==
    /\ Asked
    /\ cacheOut.prev.op = "write"
    /\ cacheOut.prev.question = cacheOut.question
Similar(i) ==
    Similarity(cacheOut.question, response_cache[i].question) >= SIMILARITY_THRESHOLD
AgeOf(i) == cacheOut.t - response_cache[i].cached_at
\* the row is one of the LOOKUP_ROWS most recently written unexpired rows
Examined(i) ==
    Cardinality({j \in 1..Len(response_cache) :
                    /\ AgeOf(j) < SEMANTIC_CACHE_TTL
                    /\ response_cache[j].cached_at > response_cache[i].cached_at})
        < LOOKUP_ROWS

\* C13 as stated: whenever the cache holds an entry at least as similar to the
\* question as the threshold and of age at most the TTL, the lookup is a hit.
C13_SimilarEntryWithinTtlIsHit ==
    Asked /\ cacheOut.out = "ok" =>
        ((\E i \in 1..Len(response_cache) : Similar(i) /\ AgeOf(i) <= SEMANTIC_CACHE_TTL)
            => cacheOut.result.hit)

\* C13 amended: whenever the cache holds an entry at least as similar to the
\* question as the threshold, of age strictly less than the TTL and among the
\* 100 most recently written unexpired entries, a lookup that does not fail is
\* a hit; with no such entry, or when the lookup fails, it is a miss.
C13_SimilarRecentEntryIsHit ==
    Asked =>
        (cacheOut.result.hit <=>
            /\ cacheOut.out = "ok"
            /\ \E i \in 1..Len(response_cache) :
                  Similar(i) /\ AgeOf(i) < SEMANTIC_CACHE_TTL /\ Examined(i))

C13_HitAtThresholdJustBeforeExpiry ==
    /\ Asked
    /\ cacheOut.result.hit
    /\ cacheOut.result.similarity = SIMILARITY_THRESHOLD
    /\ \E i \in 1..Len(response_cache) :
          /\ response_cache[i].question = cacheOut.result.original_question
          /\ AgeOf(i) = SEMANTIC_CACHE_TTL - 1

\* C14 as stated: a write without store failure immediately followed by a
\* lookup of the same question is a hit of similarity 1.0 that returns the
\* answer just written.
C14_ReadBackReturnsWrittenAnswer ==
    AskedAfterWriting /\ cacheOut.prev.out = "ok" /\ cacheOut.out = "ok" =>
        /\ cacheOut.result.hit
        /\ cacheOut.result.similarity = 10000
        /\ cacheOut.result.answer = cacheOut.prev.answer

\* C14 amended: a write without store failure immediately followed by a lookup
\* of the same question that does not fail is a hit of similarity 1.0 that
\* returns the first 10,000 characters of the answer just written.
C14_ReadBackReturnsStoredAnswer ==
    AskedAfterWriting /\ cacheOut.prev.out = "ok" /\ cacheOut.out = "ok" =>
        /\ cacheOut.result.hit
        /\ cacheOut.result.similarity = 10000
        /\ cacheOut.result.original_question = cacheOut.question
        /\ cacheOut.result.answer = FirstN(cacheOut.prev.answer, ANSWER_CHARS)

C14_LongAnswerReadBack ==
    /\ AskedAfterWriting
    /\ cacheOut.prev.out = "ok"
    /\ cacheOut.out = "ok"
    /\ Len(cacheOut.prev.answer) > ANSWER_CHARS
    /\ Len(response_cache) > 1
    /\ cacheOut.result.hit

\* ------------------------------------------------------------------------
\* agent.py: tools
\*   a content block of an LLM response is a text block [type, text] or a
\*   tool_use block [type, id, name, input]; the JSON text a tool returns
\*   is a sequence of atoms whose first atom is its first key
\* ------------------------------------------------------------------------
Text(text) == [type |-> "text", text |-> text]
ToolUse(id, name, input) == [type |-> "tool_use", id |-> id, name |-> name, input |-> input]

RawSqlTools == {"query_researchers", "query_patents", "query_grants",
                "query_policies", "query_portfolio", "query_market_data"}

ToolDb(tool_name) ==
    CASE tool_name = "query_researchers" -> "researchers"
      [] tool_name = "query_patents" -> "patents"
      [] tool_name = "query_grants" -> "grants"
      [] tool_name = "query_policies" -> "policies"
      [] tool_name = "query_portfolio" -> "portfolio"
      [] OTHER -> "market_data"

ToolEntityType(tool_name) ==
    CASE tool_name = "query_researchers" -> "researcher"
      [] tool_name = "query_patents" -> "patent"
      [] tool_name = "query_grants" -> "grant"
      [] tool_name = "query_policies" -> "policy"
      [] tool_name = "query_portfolio" -> "company"
      [] OTHER -> ""

\* a row is the value of its id column, 0 when the row is not linkable; a
\* negative value -n is a row of id n whose total_cost column holds a text
RowId(row) == IF row < 0 THEN -row ELSE row
CostIsText(row) == row < 0

\* the grant's meta, f"${row.get('total_cost', 0):,.0f}", raises ValueError
\* for a text
ExtractRaises(tool_name, rows) ==
    /\ tool_name = "query_grants"
    /\ \E i \in 1..Len(rows) : i <= 10 /\ CostIsText(rows[i])

extract_entities(tool_name, rows) ==
    LET HasId(id) == id # 0
        linked == IF ToolEntityType(tool_name) = "" THEN <<>>
                  ELSE SelectSeq(FirstN(rows, 10), HasId)
    IN [i \in 1..Len(linked) |->
           [type |-> ToolEntityType(tool_name), id |-> RowId(linked[i])]]

\* json.dumps of a query result, of an error and of the insight status
DumpRows(rows) == <<"rows">> \o [i \in 1..Len(rows) |-> ToString(rows[i])]
DumpError(msg) == <<"error", msg>>
DumpStatus(total) == <<"status", "insight recorded", ToString(total)>>

ToolOutcome(text, insights, entities, cache, posts) ==
    [text |-> text, insights |-> insights, entities |-> entities, cache |-> cache,
     posts |-> posts]

\* a raw SQL tool after its execute_query returned or raised r
ToolQueried(tool_name, r, insights, entities) ==
    IF r.raised
    THEN ToolOutcome(DumpError(r.value.msg), insights, entities, r.cache, r.posts)
    ELSE IF ExtractRaises(tool_name, r.value.rows)
    THEN ToolOutcome(DumpError("Unknown format code"), insights, entities, r.cache,
                     r.posts)
    ELSE ToolOutcome(DumpRows(r.value.rows), insights,
                     entities \o extract_entities(tool_name, r.value.rows),
                     r.cache, r.posts)

\* db.py search_entity: the entity_links query, then one count query per
\* source; a query that raises is skipped (except: pass)
SearchQueries(name) ==
    <<[db |-> "grants", found |-> "",
       query |-> <<"\n", "SELECT", " ", "* FROM entity_links WHERE canonical_name LIKE '%",
                   name, "%'", " ", "LIMIT", " ", "5", "\n">>],
      [db |-> "patents", found |-> "patents",
       query |-> <<"\n", "SELECT", " ",
                   "COUNT(*) as count FROM patents WHERE primary_assignee LIKE '%",
                   name, "%'", "\n">>],
      [db |-> "grants", found |-> "grants",
       query |-> <<"\n", "SELECT", " ",
                   "COUNT(*) as count, SUM(total_cost) as total_funding FROM grants WHERE organization LIKE '%",
                   name, "%'", "\n">>],
      [db |-> "researchers", found |-> "researchers",
       query |-> <<"\n", "SELECT", " ",
                   "COUNT(*) as count FROM researchers WHERE affiliations LIKE '%",
                   name, "%'", "\n">>]>>

\* st after query q returned or raised r
Searched(q, st, r) ==
    [found_in |-> IF ~r.raised /\ q.found # "" /\ r.value.rows # <<>> /\ r.value.rows[1] > 0
                  THEN Append(st.found_in, q.found) ELSE st.found_in,
     cache |-> r.cache,
     posts |-> st.posts \o r.posts]

RECURSIVE SearchFrom(_, _, _, _, _)
SearchFrom(k, queries, st, t, http) ==
    IF k > Len(queries) THEN st
    ELSE SearchFrom(k + 1, queries,
                    CHOOSE d \in
                      {Searched(queries[k], st, r) :
                         r \in {execute_query(st.cache, t, queries[k].db, queries[k].query,
                                              DEFAULT_LIMIT, TRUE, http)}} : TRUE,
                    t, http)

search_entity(cache, t, name, http) ==
    SearchFrom(1, SearchQueries(name), [found_in |-> <<>>, cache |-> cache, posts |-> <<>>],
               t, http)

\* json.dumps of the presence map
DumpFound(found_in) == <<"query">> \o found_in

\* db.py get_company_profile: the two statements of get_patent_portfolio, the
\* three of get_funding_summary and the researchers statement; a part whose
\* statement raises becomes {"error": message} and its later statements are
\* not run
ProfileQueries(name) ==
    <<[part |-> "patents", db |-> "patents", links |-> "query_patents",
       query |-> <<"\n", "SELECT", " ",
                   "id, patent_number, title FROM patents WHERE primary_assignee LIKE '%",
                   name, "%'", " ", "LIMIT", " ", "50", "\n">>],
      [part |-> "patents", db |-> "patents", links |-> "",
       query |-> <<"\n", "SELECT", " ",
                   "COUNT(*) as total_patents FROM patents WHERE primary_assignee LIKE '%",
                   name, "%'", "\n">>],
      [part |-> "grants", db |-> "grants", links |-> "",
       query |-> <<"\n", "SELECT", " ",
                   "COUNT(*) as grant_count FROM grants WHERE organization LIKE '%",
                   name, "%'", "\n">>],
      [part |-> "grants", db |-> "grants", links |-> "",
       query |-> <<"\n", "SELECT", " ",
                   "mechanism, COUNT(*) as count FROM grants WHERE organization LIKE '%",
                   name, "%'", " ", "LIMIT", " ", "10", "\n">>],
      [part |-> "grants", db |-> "grants", links |-> "query_grants",
       query |-> <<"\n", "SELECT", " ",
                   "id, title, mechanism, total_cost FROM grants WHERE organization LIKE '%",
                   name, "%'", " ", "LIMIT", " ", "10", "\n">>],
      [part |-> "researchers", db |-> "researchers", links |-> "query_researchers",
       query |-> <<"\n", "SELECT", " ",
                   "id, name, h_index FROM researchers WHERE affiliations LIKE '%",
                   name, "%'", " ", "LIMIT", " ", "10", "\n">>]>>

\* st after statement q returned or raised r
Profiled(q, st, r) ==
    [errors |-> IF r.raised THEN st.errors \cup {q.part} ELSE st.errors,
     linked |-> IF ~r.raised /\ q.links # ""
                THEN Append(st.linked, [part |-> q.part, tool |-> q.links,
                                        rows |-> r.value.rows])
                ELSE st.linked,
     cache |-> r.cache,
     posts |-> st.posts \o r.posts]

RECURSIVE ProfileFrom(_, _, _, _, _)
ProfileFrom(k, queries, st, t, http) ==
    IF k > Len(queries) THEN st
    ELSE IF queries[k].part \in st.errors THEN ProfileFrom(k + 1, queries, st, t, http)
    ELSE ProfileFrom(k + 1, queries,
                     CHOOSE d \in
                       {Profiled(queries[k], st, r) :
                          r \in {execute_query(st.cache, t, queries[k].db, queries[k].query,
                                               DEFAULT_LIMIT, TRUE, http)}} : TRUE,
                     t, http)

get_company_profile(cache, t, name, http) ==
    ProfileFrom(1, ProfileQueries(name),
                [errors |-> {}, linked |-> <<>>, cache |-> cache, posts |-> <<>>], t, http)

\* json.dumps of the profile: its name, then each part or the error in its place
DumpProfile(errors) ==
    <<"name">> \o [i \in 1..3 |-> IF <<"patents", "grants", "researchers">>[i] \in errors
                                  THEN "error"
                                  ELSE <<"patents", "grants", "researchers">>[i]]

\* an extraction of one of the three parts raises
ProfileRaises(linked, errors) ==
    \E i \in 1..Len(linked) :
        linked[i].part \notin errors /\ ExtractRaises(linked[i].tool, linked[i].rows)

\* the entities of the parts of a profile that hold rows: one entities.extend
\* per part, up to the part whose extraction raises
RECURSIVE ProfileEntities(_, _)
ProfileEntities(linked, errors) ==
    IF linked = <<>> THEN <<>>
    ELSE IF Head(linked).part \in errors THEN ProfileEntities(Tail(linked), errors)
    ELSE IF ExtractRaises(Head(linked).tool, Head(linked).rows) THEN <<>>
    ELSE extract_entities(Head(linked).tool, Head(linked).rows)
         \o ProfileEntities(Tail(linked), errors)

\* execute_tool with the lists it appends to and the query cache at time t;
\* [text, insights, entities, cache, posts]
execute_tool(tool_name, tool_input, insights, entities, cache, t, http) ==
    CASE tool_name \in RawSqlTools ->
           IF "query" \notin DOMAIN tool_input
           THEN ToolOutcome(DumpError("'query'"), insights, entities, cache, <<>>)
           ELSE CHOOSE d \in
                  {ToolQueried(tool_name, r, insights, entities) :
                     r \in {execute_query(cache, t, ToolDb(tool_name), tool_input.query,
                                          DEFAULT_LIMIT, TRUE, http)}} : TRUE
      [] tool_name = "append_insight" ->
           IF "insight" \notin DOMAIN tool_input
           THEN ToolOutcome(DumpError("'insight'"), insights, entities, cache, <<>>)
           ELSE ToolOutcome(DumpStatus(Len(insights) + 1),
                            Append(insights, tool_input.insight), entities, cache, <<>>)
      [] tool_name = "search_entity" ->
           IF DOMAIN tool_input # {"name"}
           THEN ToolOutcome(DumpError("search_entity() arguments"), insights, entities,
                            cache, <<>>)
           ELSE CHOOSE d \in
                  {ToolOutcome(DumpFound(found.found_in), insights, entities, found.cache,
                               found.posts) :
                     found \in {search_entity(cache, t, tool_input.name, http)}} : TRUE
      [] tool_name = "get_company_profile" ->
           IF DOMAIN tool_input # {"name"}
           THEN ToolOutcome(DumpError("get_company_profile() arguments"), insights,
                            entities, cache, <<>>)
           ELSE CHOOSE d \in
                  {ToolOutcome(IF ProfileRaises(profile.linked, profile.errors)
                               THEN DumpError("Unknown format code")
                               ELSE DumpProfile(profile.errors), insights,
                               entities \o ProfileEntities(profile.linked, profile.errors),
                               profile.cache, profile.posts) :
                     profile \in {get_company_profile(cache, t, tool_input.name, http)}} :
                  TRUE
      [] OTHER ->
           ToolOutcome(DumpError("Unknown tool"), insights, entities, cache, <<>>)

\* ------------------------------------------------------------------------
\* One tool executed on behalf of the LLM
\* ------------------------------------------------------------------------
ToolNames == {"query_researchers", "append_insight", "search_entity",
              "get_company_profile", "no_such_tool"}
ToolInputs ==
    {[query |-> <<"SELECT", " ", "x">>], [insight |-> "noted"], [name |-> "Epana"],
     [name |-> "Epana", limit |-> "5"], [database |-> "patents"]}
ToolCatalog == RawSqlTools \cup {"append_insight", "search_entity", "get_company_profile"}
ToolArguments(tool_name) ==
    CASE tool_name \in RawSqlTools -> {"query"}
      [] tool_name = "append_insight" -> {"insight"}
      [] tool_name \in {"search_entity", "get_company_profile"} -> {"name"}
      [] OTHER -> {}

\* rows whose total_cost is a text
OkCostText == [kind |-> "ok", rows |-> <<3, -4>>]
ToolQueryHttp == QueryHttp \cup {<<OkCostText, OkCostText>>}

ToolExecuted ==
    \E tool_name \in ToolNames, tool_input \in ToolInputs, http \in ToolQueryHttp :
        /\ sqlOut = NoCall
        /\ \E x \in {execute_tool(tool_name, tool_input, <<>>, <<>>, _query_cache, now, http)} :
              /\ _query_cache' = x.cache
              /\ sqlOut' = [tool_name |-> tool_name, tool_input |-> tool_input,
                            http |-> http, text |-> x.text, posts |-> x.posts,
                            insights |-> x.insights, entities |-> x.entities]
        /\ calls' = calls + 1
        /\ UNCHANGED <<now, fresh, outsideSql>>

NextTool == ToolExecuted \/ QueryTick

SpecTool == InitQuery /\ [][NextTool]_varsQuery

Executed == "tool_name" \in DOMAIN sqlOut
\* the upstream answers no attempt of a call with rows
UpstreamDown(http) ==
    \/ http[1].kind \notin {"ok", "timeout"}
    \/ http[1].kind = "timeout" /\ http[2].kind # "ok"
ToolFailed ==
    \/ sqlOut.tool_name \notin ToolCatalog
    \/ ~(ToolArguments(sqlOut.tool_name) \subseteq DOMAIN sqlOut.tool_input)
    \/ sqlOut.posts # <<>> /\ UpstreamDown(sqlOut.http)

\* C17: execute_tool returns a JSON text for every tool name, every input and
\* every upstream behaviour, and the text of a failure (a name outside the
\* catalog, a missing argument, a failing upstream) is an object with an
\* error field.
C17_FailureIsErrorObject ==
    Executed =>
        /\ sqlOut.text # <<>>
        /\ sqlOut.text[1] \in {"rows", "status", "query", "name", "error"}
        /\ ToolFailed => sqlOut.text[1] = "error"


RECURSIVE Deduplicate(_, _, _)
Deduplicate(entities, seen, unique) ==
    IF entities = <<>> THEN unique
    ELSE IF <<Head(entities).type, Head(entities).id>> \in seen
    THEN Deduplicate(Tail(entities), seen, unique)
    ELSE Deduplicate(Tail(entities),
                     seen \cup {<<Head(entities).type, Head(entities).id>>},
                     Append(unique, Head(entities)))

KeepAll(entities) == entities

deduplicate_entities(entities) == Deduplicate(entities, {}, <<>>)

\* ------------------------------------------------------------------------
\* agent.py: run_agent and run_agent_streaming
\* ------------------------------------------------------------------------
StatusEvent(message) == [type |-> "status", message |-> message]
ToolEvent(tool_name) == [type |-> "tool", tool |-> tool_name]
ToolResultEvent(tool_name, rows) == [type |-> "tool_result", tool |-> tool_name, rows |-> rows]
\* a final event that is sent as one more status
CompleteAsStatus(data) == [type |-> "status", message |-> data]
\* a final event that carries no result
CompleteWithoutData(data) == [type |-> "complete", data |-> NoResult]
Complete(data) == [type |-> "complete", data |-> data]

\* the events around one tool: tool_result only when the JSON has "rows"
ToolEvents(tool_name, text) ==
    IF text[1] = "rows"
    THEN <<ToolEvent(tool_name), ToolResultEvent(tool_name, Len(text) - 1)>>
    ELSE <<ToolEvent(tool_name)>>

\* what a run does, in the order it does it: the events it yields and the
\* calls it makes, each with the turn it belongs to (0 before the loop)
Yielded(what, step) == [yield |-> TRUE, what |-> what, step |-> step, block |-> "none"]
Did(what, step) == [yield |-> FALSE, what |-> what, step |-> step, block |-> "none"]
OfBlock(entry, block) == [entry EXCEPT !.block = block.id]

\* a tool that runs before its tool event is yielded
ToolIssueAfterExecution(block, step, text) ==
    <<OfBlock(Did("execute", step), block), OfBlock(Yielded("tool", step), block)>>
    \o (IF text[1] = "rows" THEN <<OfBlock(Yielded("tool_result", step), block)>>
        ELSE <<>>)

\* one tool_use block: the tool event, execute_tool, the tool_result event
ToolIssue(block, step, text) ==
    <<OfBlock(Yielded("tool", step), block), OfBlock(Did("execute", step), block)>>
    \o (IF text[1] = "rows" THEN <<OfBlock(Yielded("tool_result", step), block)>>
        ELSE <<>>)

ToolResultByName(block, text) ==
    [type |-> "tool_result", tool_use_id |-> block.name, content |-> text]

ToolResultBlock(block, text) ==
    [type |-> "tool_result", tool_use_id |-> block.id, content |-> text]

ToolCall(block, text) ==
    [tool |-> block.name, input |-> block.input,
     result_preview |-> FirstN(text, PREVIEW_CHARS)]

\* st after the tool of a tool_use block returned x
AfterTool(block, st, x) ==
    [tool_results |-> Append(st.tool_results, ToolResultBlock(block, x.text)),
     all_tool_calls |-> Append(st.all_tool_calls, ToolCall(block, x.text)),
     insights |-> x.insights,
     entities |-> x.entities,
     cache |-> x.cache,
     events |-> st.events \o ToolEvents(block.name, x.text),
     step |-> st.step,
     log |-> st.log \o ToolIssue(block, st.step, x.text)]

\* the for loop over response.content, from block k on
RECURSIVE RunTools(_, _, _, _, _)
RunTools(content, k, st, t, http) ==
    IF k > Len(content) THEN st
    ELSE IF content[k].type = "tool_use"
    THEN RunTools(content, k + 1,
                  CHOOSE d \in
                    {AfterTool(content[k], st, x) :
                       x \in {execute_tool(content[k].name, content[k].input,
                                           st.insights, st.entities, st.cache, t, http)}} : TRUE,
                  t, http)
    ELSE RunTools(content, k + 1, st, t, http)

RECURSIVE final_text(_)
final_text(content) ==
    IF content = <<>> THEN <<>>
    ELSE (IF "text" \in DOMAIN Head(content) THEN Head(content).text ELSE <<>>)
         \o final_text(Tail(content))

EffectiveMaxTurns(max_turns) == IF max_turns = 0 THEN MAX_TURNS ELSE max_turns

LoopContinuesOnceMore(turns, max_turns) == turns <= max_turns

LoopContinues(turns, max_turns) == turns < max_turns

UsesRouter(skip_router, conversation_history) ==
    ~skip_router /\ conversation_history = <<>>

UsesCache(skip_cache, conversation_history) ==
    ~skip_cache /\ conversation_history = <<>>

StoresAnyFinalText(skip_cache, conversation_history, text) ==
    ~skip_cache /\ text # <<>>

\* a run that stores an empty final text as well
StoresEmptyText(skip_cache, conversation_history, text) ==
    ~skip_cache /\ conversation_history = <<>>

StoresResponse(skip_cache, conversation_history, text) ==
    ~skip_cache /\ conversation_history = <<>> /\ text # <<>>

RoutedWithoutEntities(routed) ==
    [returned |-> TRUE, answer |-> routed.answer, tool_calls |-> <<>>, insights |-> <<>>,
     entities |-> <<>>, model |-> "None", turns_used |-> 0,
     tier |-> routed.tier, tier_name |-> routed.tier_name, routed |-> TRUE]

RoutedResult(routed) ==
    [returned |-> TRUE, answer |-> routed.answer, tool_calls |-> <<>>, insights |-> <<>>,
     entities |-> routed.entities, model |-> "None", turns_used |-> 0,
     tier |-> routed.tier, tier_name |-> routed.tier_name, routed |-> TRUE]

\* a cached answer that leaves the entities of the entry behind
CachedResultWithoutEntities(cached) ==
    [returned |-> TRUE, answer |-> cached.answer, tool_calls |-> cached.tool_calls,
     insights |-> cached.insights, entities |-> <<>>,
     model |-> "None", turns_used |-> 0, cached |-> TRUE,
     similarity |-> cached.similarity,
     original_question |-> cached.original_question]

CachedResult(cached) ==
    [returned |-> TRUE, answer |-> cached.answer, tool_calls |-> cached.tool_calls,
     insights |-> cached.insights,
     entities |-> IF "entities" \in DOMAIN cached THEN cached.entities ELSE <<>>,
     model |-> "None", turns_used |-> 0, cached |-> TRUE,
     similarity |-> cached.similarity,
     original_question |-> cached.original_question]

\* a canned answer that does not name the missing key
MissingKeyWithoutError ==
    [returned |-> TRUE,
     answer |-> Answer("text", <<>>, <<"Neo SQL agent is not configured.">>),
     tool_calls |-> <<>>, insights |-> <<>>, model |-> "None"]

MissingKeyResult ==
    [returned |-> TRUE,
     answer |-> Answer("text", <<>>, <<"Neo SQL agent is not configured.">>),
     tool_calls |-> <<>>, insights |-> <<>>, model |-> "None",
     error |-> "missing_api_key"]

\* an error result that forgets what the earlier turns gathered
ApiErrorWithoutTrace(tool_calls, insights, turns) ==
    [returned |-> TRUE, answer |-> Answer("text", <<>>, <<"API error: ", "e">>),
     tool_calls |-> <<>>, insights |-> <<>>, model |-> DEFAULT_MODEL,
     turns_used |-> turns, error |-> "api_error"]

ApiErrorResult(tool_calls, insights, turns) ==
    [returned |-> TRUE, answer |-> Answer("text", <<>>, <<"API error: ", "e">>),
     tool_calls |-> tool_calls, insights |-> insights, model |-> DEFAULT_MODEL,
     turns_used |-> turns, error |-> "api_error"]

EndTurnResult(text, tool_calls, insights, unique_entities, turns) ==
    [returned |-> TRUE, answer |-> Answer("text", <<>>, text), tool_calls |-> tool_calls,
     insights |-> insights, entities |-> unique_entities, model |-> DEFAULT_MODEL,
     turns_used |-> turns, tier |-> 3, tier_name |-> "agent"]

UnexpectedStopResult(stop_reason, text, tool_calls, insights, entities, turns) ==
    [returned |-> TRUE,
     answer |-> IF text # <<>> THEN Answer("text", <<>>, text)
                ELSE Answer("text", <<>>, <<"Unexpected stop reason: ", stop_reason>>),
     tool_calls |-> tool_calls, insights |-> insights,
     entities |-> deduplicate_entities(entities), model |-> DEFAULT_MODEL,
     turns_used |-> turns]

MaxStepsAnswer ==
    Answer("text", <<>>, <<"I've reached the maximum number of analysis steps.">>)

MaxTurnsWithoutTrace(tool_calls, insights, entities, turns) ==
    [returned |-> TRUE, answer |-> MaxStepsAnswer, tool_calls |-> <<>>,
     insights |-> <<>>, entities |-> <<>>, model |-> DEFAULT_MODEL,
     turns_used |-> turns, warning |-> "max_turns_exceeded"]

MaxTurnsResult(tool_calls, insights, entities, turns) ==
    [returned |-> TRUE, answer |-> MaxStepsAnswer, tool_calls |-> tool_calls,
     insights |-> insights, entities |-> deduplicate_entities(entities),
     model |-> DEFAULT_MODEL, turns_used |-> turns,
     warning |-> "max_turns_exceeded"]

\* ------------------------------------------------------------------------
\* One agent run. The request, the environment and the response cache an
\* earlier run left are chosen at the start; the upstream, the store and
\* the LLM answer as they like.
\* ------------------------------------------------------------------------
AgentQuestions == {<<"How many patents?">>, <<"rising stars in immunology">>,
                   <<"hello there">>}

NoHistory == <<>>
SomeHistory == <<[role |-> "user", content |-> <<"earlier question">>],
                 [role |-> "assistant", content |-> <<"earlier answer">>]>>

\* the table after an earlier run, made with skip_router, stored its answer
\* to the question typed with a leading blank
EarlierCache(question) ==
    cache_response(<<>>, 0, <<" ">> \o question, <<"earlier answer">>, <<>>, <<>>, "ok")

Requests ==
    [question : AgentQuestions, conversation_history : {NoHistory, SomeHistory},
     skip_cache : BOOLEAN, skip_router : BOOLEAN, max_turns : 1..MaxTurns,
     api_key : BOOLEAN, streaming : BOOLEAN]

\* the upstream answers every call of a classification, or fails every one
AgentUps == {<<h, h>> : h \in {<<OkTwo, OkTwo>>, <<Status, Status>>}}

OkDup == [kind |-> "ok", rows |-> <<2, 1, 2, 0>>]
\* what the upstream does at the attempts of every query of one turn
ToolHttp == {<<OkDup, OkDup>>, <<Timeout, OkDup>>, <<Status, Status>>}

QueryX == <<"SELECT", " ", "x">>
QueryY == <<"SELECT", " ", "y", " ", "LIMIT", " ", "10">>

ToolUseContents ==
    {<<Text(<<"let me look">>)>>,
     <<Text(<<"let me look">>),
       ToolUse("t1", "query_researchers", [query |-> QueryX]),
       ToolUse("t2", "append_insight", [insight |-> "i1"])>>,
     <<ToolUse("t3", "query_patents", [query |-> QueryY]),
       ToolUse("t4", "no_such_tool", [query |-> QueryX]),
       ToolUse("t5", "query_researchers", [query |-> QueryX]),
       ToolUse("t6", "query_market_data", [sql |-> QueryX])>>}

FinalContents == {<<>>, <<Text(<<"part one">>), Text(<<"part two">>)>>}

\* one kind of request is also answered with a text longer than the cache keeps
LongFinal(r) ==
    /\ r.question = <<"hello there">>
    /\ r.skip_router /\ ~r.skip_cache /\ ~r.streaming
    /\ r.conversation_history = NoHistory
FinalContentsOf(r) ==
    IF LongFinal(r) THEN FinalContents \cup {<<Text(LongAnswer)>>} ELSE FinalContents

OtherStopReasons == {"max_tokens"}

Emit(evs) == IF req.streaming THEN events \o evs ELSE events

\* what the environment answered to a step of the run: the router's
\* upstream, the store, the LLM and the upstream of the tools
Input(kind, content, out, http) ==
    [kind |-> kind, content |-> content, out |-> out, http |-> http]

\* run_agent does what run_agent_streaming does between its yields
IsCall(entry) == ~entry.yield
Issue(entries) ==
    trace.log \o (IF req.streaming THEN entries ELSE SelectSeq(entries, IsCall))

Init ==
    /\ req \in Requests
    /\ \E warm \in BOOLEAN :
          response_cache = IF warm THEN EarlierCache(req.question) ELSE <<>>
    /\ trace = [NoTrace EXCEPT !.cache0 = response_cache]
    /\ pc = "router"
    /\ turns_used = 0
    /\ messages = <<>>
    /\ all_tool_calls = <<>>
    /\ run_insights = <<>>
    /\ run_entities = <<>>
    /\ run_result = NoResult
    /\ events = <<>>
    /\ _query_cache = <<>>
    /\ AGGREGATION_CACHE = <<>>
    /\ routeOut = NoRoute
    /\ now = 0
    /\ fresh = 0
    /\ calls = 0
    /\ sqlOut = NoCall
    /\ cacheOut = NoCacheCall
    /\ tasks = NoTasks

outsideAgent == <<now, fresh, calls, sqlOut, cacheOut, tasks>>
runLocals == <<turns_used, messages, all_tool_calls, run_insights, run_entities>>

\* STEP 1: the router
AgentRoute ==
    /\ pc = "router"
    /\ IF UsesRouter(req.skip_router, req.conversation_history)
       THEN \E up \in AgentUps :
              \E routed \in {route_question(req.question, AGGREGATION_CACHE,
                                            _query_cache, now, up)} :
                /\ routeOut' = [routed EXCEPT !.agg = <<>>, !.cache = <<>>]
                /\ AGGREGATION_CACHE' = routed.agg
                /\ _query_cache' = routed.cache
                /\ trace' = [trace EXCEPT
                                !.router_calls = @ + 1,
                                !.inputs = Append(@, Input("router", <<>>, "none", up)),
                                !.log = Issue(<<Yielded("status", 0), Did("router", 0)>>
                                              \o (IF ~routed.response.needs_agent
                                                  THEN <<Yielded("complete", 0)>>
                                                  ELSE <<>>))]
                /\ IF ~routed.response.needs_agent
                   THEN /\ run_result' = RoutedResult(routed.response)
                        /\ events' = Emit(<<StatusEvent("Checking if I can answer instantly..."),
                                            Complete(RoutedResult(routed.response))>>)
                        /\ pc' = "done"
                   ELSE /\ run_result' = run_result
                        /\ events' = Emit(<<StatusEvent("Checking if I can answer instantly...")>>)
                        /\ pc' = "cache"
       ELSE /\ pc' = "cache"
            /\ UNCHANGED <<routeOut, AGGREGATION_CACHE, _query_cache, trace, run_result,
                           events>>
    /\ UNCHANGED <<req, response_cache, runLocals, outsideAgent>>

\* STEP 2: the response cache
AgentCache ==
    /\ pc = "cache"
    /\ IF UsesCache(req.skip_cache, req.conversation_history)
       THEN \E out \in LookupOutcomes :
              \E cached \in {get_cached_response_entities(response_cache, now,
                                                           req.question, out)} :
                /\ trace' = [trace EXCEPT
                                !.cache_reads = @ + 1,
                                !.inputs = Append(@, Input("lookup", <<>>, out, <<>>)),
                                !.log = Issue(<<Yielded("status", 0), Did("cache_read", 0)>>
                                              \o (IF cached.hit
                                                  THEN <<Yielded("complete", 0)>>
                                                  ELSE <<>>))]
                /\ cacheOut' = [op |-> "run", lookup |-> out, store |-> "none"]
                /\ IF cached.hit
                   THEN /\ run_result' = CachedResult(cached)
                        /\ events' = Emit(<<StatusEvent("Checking memory for similar questions..."),
                                            Complete(CachedResult(cached))>>)
                        /\ pc' = "done"
                   ELSE /\ run_result' = run_result
                        /\ events' = Emit(<<StatusEvent("Checking memory for similar questions...")>>)
                        /\ pc' = "key"
       ELSE /\ pc' = "key"
            /\ UNCHANGED <<trace, run_result, events, cacheOut>>
    /\ UNCHANGED <<req, response_cache, routeOut, AGGREGATION_CACHE, _query_cache,
                   runLocals, now, fresh, calls, sqlOut, tasks>>

\* STEP 3: the API key, then the messages and the empty lists
AgentKey ==
    /\ pc = "key"
    /\ IF ~req.api_key
       THEN /\ run_result' = MissingKeyResult
            /\ events' = Emit(<<StatusEvent("Starting analysis..."), Complete(MissingKeyResult)>>)
            /\ pc' = "done"
            /\ UNCHANGED messages
       ELSE /\ messages' = req.conversation_history
                             \o <<[role |-> "user", content |-> req.question]>>
            /\ events' = Emit(<<StatusEvent("Starting analysis...")>>)
            /\ pc' = "loop"
            /\ UNCHANGED run_result
    /\ trace' = [trace EXCEPT
                    !.log = Issue(<<Yielded("status", 0)>>
                                  \o (IF ~req.api_key THEN <<Yielded("complete", 0)>>
                                      ELSE <<>>))]
    /\ UNCHANGED <<req, response_cache, routeOut, AGGREGATION_CACHE, _query_cache,
                   turns_used, all_tool_calls, run_insights, run_entities, outsideAgent>>

InLoop == pc = "loop" /\ LoopContinues(turns_used, EffectiveMaxTurns(req.max_turns))

Thinking == StatusEvent("Thinking...")

\* a turn whose request raises anthropic.APIError
AgentApiError ==
    /\ InLoop
    /\ turns_used' = turns_used + 1
    /\ trace' = [trace EXCEPT
                    !.requests = Append(@, "api_error"),
                    !.inputs = Append(@, Input("api_error", <<>>, "none", <<>>)),
                    !.log = Issue(<<Yielded("thinking", turns_used + 1),
                                    Did("request", turns_used + 1),
                                    Yielded("complete", turns_used + 1)>>)]
    /\ run_result' = ApiErrorResult(all_tool_calls, run_insights, turns_used + 1)
    /\ events' = Emit(<<Thinking,
                        Complete(ApiErrorResult(all_tool_calls, run_insights,
                                                turns_used + 1))>>)
    /\ pc' = "done"
    /\ UNCHANGED <<req, response_cache, routeOut, AGGREGATION_CACHE, _query_cache,
                   messages, all_tool_calls, run_insights, run_entities, outsideAgent>>

\* a turn whose response has stop_reason end_turn
AgentEndTurn ==
    \E content \in FinalContentsOf(req), out \in StoreOutcomes :
        /\ InLoop
        /\ turns_used' = turns_used + 1
        /\ \E r \in {EndTurnResult(final_text(content), all_tool_calls, run_insights,
                                   deduplicate_entities(run_entities), turns_used + 1)} :
              /\ run_result' = r
              /\ events' = Emit(<<Thinking, StatusEvent("Composing response..."), Complete(r)>>)
        /\ IF StoresResponse(req.skip_cache, req.conversation_history, final_text(content))
           THEN /\ response_cache' = cache_response_entities(
                                       response_cache, now, req.question,
                                       final_text(content), all_tool_calls, run_insights,
                                       deduplicate_entities(run_entities), out)
                /\ trace' = [trace EXCEPT
                                !.requests = Append(@, "end_turn"),
                                !.inputs = Append(@, Input("end_turn", content, out, <<>>)),
                                !.cache_writes = @ + 1,
                                !.log = Issue(<<Yielded("thinking", turns_used + 1),
                                                Did("request", turns_used + 1),
                                                Yielded("status", turns_used + 1),
                                                Did("cache_write", turns_used + 1),
                                                Yielded("complete", turns_used + 1)>>)]
                /\ cacheOut' = [op |-> "run",
                                lookup |-> IF cacheOut.op = "run" THEN cacheOut.lookup
                                           ELSE "none",
                                store |-> out]
           ELSE /\ response_cache' = response_cache
                /\ trace' = [trace EXCEPT
                                !.requests = Append(@, "end_turn"),
                                !.inputs = Append(@, Input("end_turn", content, out, <<>>)),
                                !.log = Issue(<<Yielded("thinking", turns_used + 1),
                                                Did("request", turns_used + 1),
                                                Yielded("status", turns_used + 1),
                                                Yielded("complete", turns_used + 1)>>)]
                /\ cacheOut' = cacheOut
        /\ pc' = "done"
        /\ UNCHANGED <<req, routeOut, AGGREGATION_CACHE, _query_cache, messages,
                       all_tool_calls, run_insights, run_entities, now, fresh, calls, sqlOut,
                       tasks>>

\* a turn whose response has stop_reason tool_use
AgentToolUse ==
    \E content \in ToolUseContents, http \in ToolHttp :
        /\ InLoop
        /\ turns_used' = turns_used + 1
        /\ \E st \in {RunTools(content, 1,
                               [tool_results |-> <<>>, all_tool_calls |-> all_tool_calls,
                                insights |-> run_insights, entities |-> run_entities,
                                cache |-> _query_cache, events |-> <<>>,
                                step |-> turns_used + 1, log |-> <<>>],
                               now, http)} :
              /\ trace' = [trace EXCEPT
                              !.requests = Append(@, "tool_use"),
                              !.inputs = Append(@, Input("tool_use", content, "none", http)),
                              !.log = Issue(<<Yielded("thinking", turns_used + 1),
                                              Did("request", turns_used + 1)>> \o st.log)]
              /\ all_tool_calls' = st.all_tool_calls
              /\ run_insights' = st.insights
              /\ run_entities' = st.entities
              /\ _query_cache' = st.cache
              /\ events' = Emit(<<Thinking>> \o st.events)
              /\ messages' = messages \o <<[role |-> "assistant", content |-> content],
                                           [role |-> "user", content |-> st.tool_results]>>
        /\ pc' = "loop"
        /\ UNCHANGED <<req, response_cache, routeOut, AGGREGATION_CACHE, run_result,
                       outsideAgent>>

\* a turn whose response has any other stop_reason
AgentUnexpectedStop ==
    \E stop_reason \in OtherStopReasons, content \in FinalContents :
        /\ InLoop
        /\ turns_used' = turns_used + 1
        /\ trace' = [trace EXCEPT
                        !.requests = Append(@, stop_reason),
                        !.inputs = Append(@, Input(stop_reason, content, "none", <<>>)),
                        !.log = Issue(<<Yielded("thinking", turns_used + 1),
                                        Did("request", turns_used + 1),
                                        Yielded("complete", turns_used + 1)>>)]
        /\ \E r \in {UnexpectedStopResult(stop_reason, final_text(content), all_tool_calls,
                                          run_insights, run_entities, turns_used + 1)} :
              /\ run_result' = r
              /\ events' = Emit(<<Thinking, Complete(r)>>)
        /\ pc' = "done"
        /\ UNCHANGED <<req, response_cache, routeOut, AGGREGATION_CACHE, _query_cache,
                       messages, all_tool_calls, run_insights, run_entities, outsideAgent>>

\* the while condition fails
AgentMaxTurns ==
    /\ pc = "loop"
    /\ ~LoopContinues(turns_used, EffectiveMaxTurns(req.max_turns))
    /\ \E r \in {MaxTurnsResult(all_tool_calls, run_insights, run_entities, turns_used)} :
          /\ run_result' = r
          /\ events' = Emit(<<Complete(r)>>)
    /\ trace' = [trace EXCEPT !.log = Issue(<<Yielded("complete", turns_used)>>)]
    /\ pc' = "done"
    /\ UNCHANGED <<req, response_cache, routeOut, AGGREGATION_CACHE, _query_cache,
                   runLocals, outsideAgent>>

Next ==
    \/ AgentRoute
    \/ AgentCache
    \/ AgentKey
    \/ AgentApiError
    \/ AgentEndTurn
    \/ AgentToolUse
    \/ AgentUnexpectedStop
    \/ AgentMaxTurns

vars == <<_query_cache, now, fresh, sqlOut, calls, response_cache, AGGREGATION_CACHE,
          routeOut, cacheOut, agentVars, tasks>>

Spec == Init /\ [][Next]_vars

Returned == pc = "done"
FromLoop == Returned /\ "entities" \in DOMAIN run_result
                     /\ "routed" \notin DOMAIN run_result
                     /\ "cached" \notin DOMAIN run_result

EntityKey(e) == <<e.type, e.id>>
Keys(es) == {EntityKey(es[i]) : i \in 1..Len(es)}
Unique(es) == \A i, j \in 1..Len(es) : i < j => EntityKey(es[i]) # EntityKey(es[j])
FirstExtracted(key) ==
    CHOOSE i \in 1..Len(run_entities) :
        /\ EntityKey(run_entities[i]) = key
        /\ \A j \in 1..(i - 1) : EntityKey(run_entities[j]) # key

\* C5: a run that ends in the loop with an entities list (end_turn, another
\* stop reason, max turns exceeded) returns every extracted (type, id) once,
\* in the order in which the pairs were first extracted.
C5_ReturnedEntitiesUniqueInFirstOrder ==
    FromLoop =>
        /\ Unique(run_result.entities)
        /\ Keys(run_result.entities) = Keys(run_entities)
        /\ \A i, j \in 1..Len(run_result.entities) :
              i < j => FirstExtracted(EntityKey(run_result.entities[i]))
                         < FirstExtracted(EntityKey(run_result.entities[j]))

C5_DuplicatesWereExtracted ==
    /\ FromLoop
    /\ Len(run_result.entities) >= 3
    /\ Len(run_entities) > Len(run_result.entities) + 2
    /\ Len(trace.requests) >= 2

ToolUseIds(content) ==
    LET IsUse(b) == b.type = "tool_use"
        uses == SelectSeq(content, IsUse)
    IN [i \in 1..Len(uses) |-> uses[i].id]

ResultIds(content) == [i \in 1..Len(content) |-> content[i].tool_use_id]

OwnMessages == {k \in 1..Len(messages) : k > Len(req.conversation_history) + 1}
ToolUseTurns == {i \in 1..Len(trace.requests) : trace.requests[i] = "tool_use"}

\* C6: every tool_use turn appends the assistant response and then one user
\* message that holds exactly one tool_result per tool_use block of that
\* response, with the block's id, in the order of the blocks.
C6_ToolResultsMatchToolUses ==
    /\ Cardinality(OwnMessages) = 2 * Cardinality(ToolUseTurns)
    /\ \A k \in OwnMessages :
          messages[k].role = "assistant" =>
              /\ k + 1 \in OwnMessages
              /\ messages[k + 1].role = "user"
              /\ \A i \in 1..Len(messages[k + 1].content) :
                    messages[k + 1].content[i].type = "tool_result"
              /\ ResultIds(messages[k + 1].content) = ToolUseIds(messages[k].content)
    /\ \A k \in OwnMessages :
          messages[k].role = "user" => k - 1 \in OwnMessages
                                       /\ messages[k - 1].role = "assistant"

C6_SeveralToolsInOneTurn ==
    \E k \in OwnMessages :
        /\ messages[k].role = "assistant"
        /\ Len(ToolUseIds(messages[k].content)) >= 2
        /\ Len(ToolUseIds(messages[k].content)) < Len(messages[k].content)
        /\ Len(messages[k + 1].content) >= 2

RouterAnswered ==
    /\ req.conversation_history = <<>>
    /\ ~req.skip_router
    /\ routeOut.called
    /\ routeOut.response.tier \in {1, 2}

\* C7: without history and with the router on, a Tier 1 or Tier 2
\* classification ends the run with the router's answer and entities: no LLM
\* request is made and the response cache is neither read nor written.
C7_RouterAnswerIgnoresResponseCache ==
    RouterAnswered =>
        /\ Returned
        /\ run_result.answer = routeOut.response.answer
        /\ run_result.entities = routeOut.response.entities
        /\ trace.requests = <<>>
        /\ trace.cache_reads = 0
        /\ trace.cache_writes = 0
        /\ response_cache = trace.cache0

C7_RoutedWhileCacheHoldsTheQuestion ==
    /\ RouterAnswered
    /\ Returned
    /\ routeOut.response.tier = 2
    /\ run_result.entities # <<>>
    /\ ~req.skip_cache
    /\ response_cache # <<>>

\* C8: with max_turns >= 1 a run makes at most max_turns LLM requests, every
\* step in the loop either makes one more request or returns, and the
\* turns_used it returns is the number of requests made, at most max_turns.
C8_AtMostMaxTurnsRequests ==
    /\ [](/\ Len(trace.requests) <= req.max_turns
          /\ turns_used = Len(trace.requests)
          /\ Returned /\ "turns_used" \in DOMAIN run_result
               => /\ run_result.turns_used = Len(trace.requests)
                  /\ run_result.turns_used <= req.max_turns)
    /\ [][pc = "loop" => pc' = "done" \/ turns_used' = turns_used + 1]_vars

C8_AllTurnsUsed ==
    /\ Returned
    /\ req.max_turns >= 2
    /\ Len(trace.requests) = req.max_turns
    /\ run_result.turns_used = req.max_turns

Warned == "warning" \in DOMAIN run_result /\ run_result.warning = "max_turns_exceeded"
EveryTurnUsedTools ==
    /\ Len(trace.requests) = req.max_turns
    /\ \A i \in 1..Len(trace.requests) : trace.requests[i] = "tool_use"

RECURSIVE ToolUsesIn(_)
ToolUsesIn(msgs) ==
    IF msgs = <<>> THEN <<>>
    ELSE (IF Head(msgs).role = "assistant" THEN ToolUseIds(Head(msgs).content) ELSE <<>>)
         \o ToolUsesIn(Tail(msgs))

OwnToolUses ==
    ToolUsesIn(SubSeq(messages, Len(req.conversation_history) + 2, Len(messages)))

\* C9: a run returns warning max_turns_exceeded exactly when max_turns LLM
\* responses in a row had stop_reason tool_use; that result has no error
\* field and carries the canned answer, one tool call per tool_use block of
\* the run, the insights and the deduplicated entities.
C9_WarningIffEveryTurnUsedTools ==
    Returned =>
        /\ Warned <=> EveryTurnUsedTools
        /\ Warned =>
              /\ "error" \notin DOMAIN run_result
              /\ run_result.answer = MaxStepsAnswer
              /\ run_result.tool_calls = all_tool_calls
              /\ Len(run_result.tool_calls) = Len(OwnToolUses)
              /\ run_result.insights = run_insights
              /\ Unique(run_result.entities)
              /\ Keys(run_result.entities) = Keys(run_entities)

C9_WarnedWithTrace ==
    /\ Returned
    /\ Warned
    /\ req.max_turns >= 2
    /\ Len(run_result.tool_calls) >= 2
    /\ run_result.insights # <<>>
    /\ run_result.entities # <<>>

\* C10: a run given a non-empty conversation history never calls the router
\* and never reads or writes the response cache, whatever skip_cache and
\* skip_router are and whatever the LLM answers.
C10_HistoryBypassesRouterAndCache ==
    req.conversation_history # <<>> =>
        /\ trace.router_calls = 0
        /\ trace.cache_reads = 0
        /\ trace.cache_writes = 0
        /\ routeOut = NoRoute
        /\ AGGREGATION_CACHE = <<>>
        /\ response_cache = trace.cache0

C10_FollowUpAnsweredLive ==
    /\ req.conversation_history # <<>>
    /\ ~req.skip_cache
    /\ ~req.skip_router
    /\ Returned
    /\ "tier" \in DOMAIN run_result
    /\ run_result.answer.text # <<>>
    /\ response_cache # <<>>

ApiErrorReturned ==
    Returned /\ "error" \in DOMAIN run_result /\ run_result.error = "api_error"
InsightsIn(calls_made) ==
    LET IsInsight(c) == c.tool = "append_insight" /\ "insight" \in DOMAIN c.input
        made == SelectSeq(calls_made, IsInsight)
    IN [i \in 1..Len(made) |-> made[i].input.insight]

\* C18: when the request of turn k raises an API error, the run ends with
\* error api_error after exactly k requests (the failing one is the last and
\* is not retried), reports turns_used = k with one tool call per tool_use
\* block and the insights of the k-1 earlier turns, and the response cache is
\* not written; nothing happens after the return.
C18_ApiErrorEndsRun ==
    /\ [](ApiErrorReturned =>
            /\ Len(trace.requests) = run_result.turns_used
            /\ run_result.turns_used = turns_used
            /\ trace.requests[turns_used] = "api_error"
            /\ \A i \in 1..(turns_used - 1) : trace.requests[i] = "tool_use"
            /\ run_result.tool_calls = all_tool_calls
            /\ Len(run_result.tool_calls) = Len(OwnToolUses)
            /\ run_result.insights = InsightsIn(all_tool_calls)
            /\ trace.cache_writes = 0
            /\ response_cache = trace.cache0)
    /\ [][ApiErrorReturned => trace' = trace /\ response_cache' = response_cache]_vars

C18_ApiErrorAfterToolTurn ==
    /\ ApiErrorReturned
    /\ run_result.turns_used > 1
    /\ run_result.tool_calls # <<>>
    /\ run_result.insights # <<>>
    /\ ~req.skip_cache
    /\ req.conversation_history = <<>>

LookupFailed == cacheOut.op = "run" /\ cacheOut.lookup = "error"
\* the write raised before its INSERT was committed
StoreFailed == cacheOut.op = "run" /\ cacheOut.store # "none" /\ ~Inserted(cacheOut.store)

Completes == {i \in 1..Len(events) : events[i].type = "complete"}
\* the run stands at one of its steps: the router, the cache, the API key
\* or the loop, each of which has a next step or a return
CanStep == pc \in {"router", "cache", "key", "loop"}

\* C20: a streaming run that has not come to its end has emitted no complete
\* event and stands at a step of the run; at its end it has emitted exactly one
\* complete event, as its last event, carrying the result of the run.
C20_ExactlyOneCompleteLast ==
    /\ req.streaming =>
          IF Returned
          THEN /\ Completes = {Len(events)}
               /\ events[Len(events)].data = run_result
          ELSE Completes = {} /\ CanStep
    /\ ~req.streaming => events = <<>>

C20_CompleteAfterToolEvents ==
    /\ req.streaming
    /\ Returned
    /\ Warned
    /\ \E i \in 1..Len(events) : events[i].type = "tool_result"
    /\ events[Len(events)].type = "complete"


\* ------------------------------------------------------------------------
\* Two runs one after the other: the second request asks the question of
\* the first again, typed with a leading blank, at once or an hour later.
\* ------------------------------------------------------------------------
InitAgain ==
    /\ Init
    /\ response_cache = <<>>
    /\ req.api_key /\ ~req.skip_cache /\ ~req.streaming
    /\ req.conversation_history = NoHistory

AgainRequests(first) ==
    {r \in Requests : /\ r.question = first.question
                      /\ r.conversation_history = NoHistory
                      /\ ~r.skip_cache /\ r.skip_router /\ ~r.streaming
                      /\ r.max_turns = 1}

\* the next call of run_agent, once the first one has stored its answer
AgentAgain ==
    /\ pc = "done"
    /\ trace.earlier = <<>>
    /\ trace.cache_writes = 1 /\ Inserted(cacheOut.store)
    /\ \E again \in AgainRequests(req), later \in {0, SEMANTIC_CACHE_TTL} :
          /\ req' = [again EXCEPT !.question = <<" ">> \o @]
          /\ now' = now + later
    /\ trace' = [NoTrace EXCEPT !.cache0 = response_cache,
                                !.earlier = <<[question |-> req.question,
                                               result |-> run_result]>>]
    /\ pc' = "router"
    /\ turns_used' = 0
    /\ messages' = <<>>
    /\ all_tool_calls' = <<>>
    /\ run_insights' = <<>>
    /\ run_entities' = <<>>
    /\ run_result' = NoResult
    /\ events' = <<>>
    /\ cacheOut' = NoCacheCall
    /\ UNCHANGED <<response_cache, routeOut, AGGREGATION_CACHE, _query_cache, fresh,
                   calls, sqlOut, tasks>>

NextAgain == Next \/ AgentAgain

SpecAgain == InitAgain /\ [][NextAgain]_vars

FromCache == Returned /\ "cached" \in DOMAIN run_result
\* the second run was answered from the entry the first run wrote
CachedAgain == FromCache /\ trace.earlier # <<>>
Original == trace.earlier[1]

CachedAsOriginal ==
    /\ run_result.cached
    /\ run_result.similarity >= SIMILARITY_THRESHOLD
    /\ run_result.turns_used = 0
    /\ trace.requests = <<>>
    /\ run_result.original_question = Original.question
    /\ run_result.entities = Original.result.entities

\* C21 as stated: a run answered from the response cache returns cached =
\* true, a similarity of at least the threshold and turns_used = 0, makes no
\* LLM request, and returns the answer and the entities that the run which
\* wrote the entry returned.
C21_CachedAnswerIsOriginalAnswer ==
    CachedAgain =>
        /\ CachedAsOriginal
        /\ run_result.answer = Original.result.answer.text

\* C21 amended: the answer returned is the first ANSWER_CHARS characters of
\* the answer the original run returned; the rest is as stated.
C21_CachedAnswerIsStoredPrefix ==
    CachedAgain =>
        /\ CachedAsOriginal
        /\ run_result.answer = FirstN(Original.result.answer.text, ANSWER_CHARS)

C21_LongAnswerWithEntitiesFromCache ==
    /\ CachedAgain
    /\ Len(Original.result.answer.text) > ANSWER_CHARS
    /\ Original.result.entities # <<>>
    /\ ~req.api_key


\* ------------------------------------------------------------------------
\* The patterns one classification evaluates
\* ------------------------------------------------------------------------
Classified == routeOut.called /\ "matched" \in DOMAIN routeOut

\* C22: once a pattern has matched the question, the router executes only
\* that pattern's query: no later pattern of the same tier and no pattern of
\* a lower-priority tier is evaluated or executed for the question.
C22_OnlyFirstMatchEvaluated ==
    Classified =>
        /\ Len(routeOut.matched) <= 1
        /\ \A i, j \in DOMAIN routeOut.posts : routeOut.posts[i] = routeOut.posts[j]

EmptyAt(i) ==
    /\ routeOut.matched[i].list \in {"tier1", "tier2"}
    /\ routeOut.outcomes[i] = "empty"

\* C23: when the query of a matched Tier 1 or Tier 2 pattern succeeds with
\* zero rows and no upstream call fails, the question is answered by that
\* tier and is not escalated to Tier 3.
C23_EmptyResultNotEscalated ==
    Classified /\ ~routeOut.failed /\ (\E i \in DOMAIN routeOut.matched : EmptyAt(i))
        => routeOut.response.tier \in {1, 2} /\ ~routeOut.response.needs_agent


\* ------------------------------------------------------------------------
\* The semantic functions of several statements, called as tools
\* ------------------------------------------------------------------------
SemanticTools == {"search_entity", "get_company_profile"}
SqlCallFailed ==
    /\ Executed
    /\ sqlOut.tool_name \in SemanticTools
    /\ sqlOut.posts # <<>> /\ UpstreamDown(sqlOut.http)
Atoms(text) == {text[i] : i \in DOMAIN text}

\* C24: when an underlying SQL call of a semantic function fails, the object
\* returned for the tool call contains an error field, at its top level or
\* inside one of its parts; this holds for search_entity and
\* get_company_profile as well.
C24_FailedSqlCallShowsError ==
    SqlCallFailed => "error" \in Atoms(sqlOut.text)


\* ------------------------------------------------------------------------
\* A run without ANTHROPIC_API_KEY
\* ------------------------------------------------------------------------
NotConfigured ==
    /\ "error" \in DOMAIN run_result
    /\ run_result.error = "missing_api_key"
    /\ run_result.answer.text = <<"Neo SQL agent is not configured.">>
    /\ run_result.tool_calls = <<>>

\* C25: with ANTHROPIC_API_KEY absent a run makes no LLM request; it returns
\* the answer of the router or of the response cache when there is one, and
\* otherwise the canned not-configured answer with error = missing_api_key.
C25_NoRequestWithoutKey ==
    ~req.api_key =>
        /\ trace.requests = <<>>
        /\ pc # "loop"
        /\ Returned =>
              IF RouterAnswered \/ FromCache
              THEN "error" \notin DOMAIN run_result /\ run_result.turns_used = 0
              ELSE NotConfigured

C25_NotConfiguredAfterRouterAndCacheMiss ==
    /\ ~req.api_key
    /\ Returned
    /\ NotConfigured
    /\ trace.router_calls = 1
    /\ trace.cache_reads = 1
    /\ trace.cache0 # <<>>


\* ------------------------------------------------------------------------
\* The write of a run to the response cache
\* ------------------------------------------------------------------------
LastRequest == trace.requests[Len(trace.requests)]

\* C26: a run writes to the response cache at most once, and only in the
\* step that ends the loop with stop_reason end_turn and a non-empty final
\* text, with skip_cache false and no conversation history; a run that ends
\* with an API error, another stop reason or max_turns writes nothing.
C26_WritesOnlyAfterEndTurn ==
    /\ [](/\ trace.cache_writes <= 1
          /\ trace.cache_writes = 0 => response_cache = trace.cache0
          /\ trace.cache_writes = 1 =>
                /\ Returned
                /\ LastRequest = "end_turn"
                /\ run_result.answer.text # <<>>
                /\ ~req.skip_cache
                /\ req.conversation_history = <<>>
                /\ "error" \notin DOMAIN run_result
                /\ "warning" \notin DOMAIN run_result)
    /\ [][response_cache' # response_cache =>
            /\ pc = "loop" /\ pc' = "done"
            /\ trace'.cache_writes = trace.cache_writes + 1]_vars

C26_StoredAfterToolTurn ==
    /\ Returned
    /\ trace.cache_writes = 1
    /\ response_cache # trace.cache0
    /\ Len(trace.requests) >= 2
    /\ all_tool_calls # <<>>


\* ------------------------------------------------------------------------
\* The entry a hit of the response cache comes from
\* ------------------------------------------------------------------------
SimilarityTo(i) == Similarity(cacheOut.question, response_cache[i].question)
HitFrom(i) ==
    /\ response_cache[i].question = cacheOut.result.original_question
    /\ response_cache[i].cached_at > cacheOut.t - SEMANTIC_CACHE_TTL
    /\ Examined(i)
    /\ SimilarityTo(i) >= SIMILARITY_THRESHOLD
    /\ cacheOut.result.similarity = round3(SimilarityTo(i))
    /\ cacheOut.result.answer = response_cache[i].answer
    /\ \A j \in 1..Len(response_cache) :
          \/ SimilarityTo(j) <= SimilarityTo(i)
          \/ AgeOf(j) >= SEMANTIC_CACHE_TTL
          \/ ~Examined(j)

\* C27: every hit of get_cached_response comes from an entry with cached_at >
\* now - TTL among the LOOKUP_ROWS most recent unexpired ones, whose
\* similarity is at least the threshold and is the largest among those
\* entries; the original question, the answer and the similarity reported
\* (to three decimals) are those of that entry.
C27_HitIsBestExaminedEntry ==
    Asked /\ cacheOut.result.hit => \E i \in 1..Len(response_cache) : HitFrom(i)

C27_HitPassesOverMoreSimilarOlderEntry ==
    /\ Asked
    /\ cacheOut.result.hit
    /\ \E i, j \in 1..Len(response_cache) :
          /\ HitFrom(i)
          /\ SimilarityTo(j) > SimilarityTo(i)
          /\ SimilarityTo(i) # cacheOut.result.similarity


\* ------------------------------------------------------------------------
\* The aggregation cache across one call of route_question
\* ------------------------------------------------------------------------
\* the step is a call whose question matched a cached aggregation
AggregationAsked ==
    /\ calls' = calls + 1
    /\ routeOut'.called /\ "matched" \in DOMAIN routeOut'
    /\ routeOut'.matched # <<>>
    /\ routeOut'.matched[1].list = "aggregation"
AskedKey == CACHED_AGGREGATIONS[routeOut'.matched[1].index].key
StoredLately ==
    /\ HasKey(AGGREGATION_CACHE, AskedKey)
    /\ now - AGGREGATION_CACHE[IndexOf(AGGREGATION_CACHE, AskedKey)].timestamp
          < CACHE_TTL_SECONDS
AnsweredFromStore ==
    /\ routeOut'.outcomes = <<"cached">>
    /\ routeOut'.posts = <<>>
    /\ routeOut'.response.tier = 1
    /\ routeOut'.response.answer
          = AGGREGATION_CACHE[IndexOf(AGGREGATION_CACHE, AskedKey)].data.answer
    /\ AGGREGATION_CACHE' = AGGREGATION_CACHE
    /\ _query_cache' = _query_cache
AnsweredByQuery ==
    /\ routeOut'.outcomes[1] \in {"rows", "empty", "raised"}
    /\ IF routeOut'.outcomes[1] = "rows"
       THEN /\ routeOut'.outcomes = <<"rows">>
            /\ routeOut'.response.tier = 1
            /\ AGGREGATION_CACHE'
                 = set_cached_aggregation(AGGREGATION_CACHE, AskedKey,
                       [answer |-> routeOut'.response.answer,
                        data |-> routeOut'.response.data], now)
       ELSE AGGREGATION_CACHE' = AGGREGATION_CACHE

\* C28: for a question matching a cached aggregation, a response stored less
\* than CACHE_TTL_SECONDS ago is returned as Tier 1 with no upstream query
\* and no change of the caches; otherwise the canned query is executed, and
\* its formatted response is stored, stamped now, only if the query
\* succeeded with at least one row.
C28_AggregationFromStoreOrQuery ==
    [][AggregationAsked => IF StoredLately THEN AnsweredFromStore ELSE AnsweredByQuery]_vars

C28_ExpiredAggregationStoredAnew ==
    /\ Classified
    /\ routeOut.matched = <<[list |-> "aggregation", index |-> 1]>>
    /\ routeOut.outcomes = <<"rows">>
    /\ now = CACHE_TTL_SECONDS
    /\ AGGREGATION_CACHE # <<>>
    /\ AGGREGATION_CACHE[1].timestamp = now
    /\ Len(_query_cache) = 1


\* ------------------------------------------------------------------------
\* Two statements that differ in letter case and surrounding whitespace
\* ------------------------------------------------------------------------
\* the step is a cached call that follows, within the TTL, a cached call
\* that fetched and stored its result
CalledAgain ==
    /\ calls' = calls + 1
    /\ "query" \in DOMAIN sqlOut /\ "query" \in DOMAIN sqlOut'
    /\ sqlOut.use_cache /\ ~sqlOut.raised /\ sqlOut.posts # <<>>
    /\ sqlOut'.use_cache
    /\ sqlOut'.t - sqlOut.t < CACHE_TTL
SameButCaseAndBlanks(a, b) == lower(strip(a)) = lower(strip(b))

\* C29: two execute_query calls to the same source whose statements differ
\* only in letter case or surrounding whitespace share one cache entry: the
\* second call within the TTL returns the result of the first and sends
\* nothing.
C29_CaseAndBlanksShareEntry ==
    [][CalledAgain /\ SameButCaseAndBlanks(sqlOut.query, sqlOut'.query)
          => /\ sqlOut'.posts = <<>>
             /\ ~sqlOut'.raised
             /\ sqlOut'.value = sqlOut.value]_varsQuery


\* ------------------------------------------------------------------------
\* The eviction of the query cache
\* ------------------------------------------------------------------------
\* the step stores into a cache above its limit (an expired entry that a
\* lookup deletes is a single one)
Evicts ==
    /\ Len(_query_cache) > QUERY_CACHE_MAX
    /\ Len(_query_cache') <= Len(_query_cache) - 2
Kept == {i \in 1..Len(_query_cache) :
            \E j \in 1..Len(_query_cache') : _query_cache'[j] = _query_cache[i]}
Gone == (1..Len(_query_cache)) \ Kept

\* C30: when _set_cached evicts, it removes the QUERY_CACHE_EVICT entries of
\* the oldest timestamps: every surviving entry is stamped no earlier than
\* every removed one, and the entry being inserted is in the cache after the
\* call.
C30_EvictionRemovesOldestKeepsInserted ==
    [][Evicts =>
          /\ Cardinality(Gone) = QUERY_CACHE_EVICT
          /\ \A g \in Gone : \A k \in Kept :
                _query_cache[g].timestamp <= _query_cache[k].timestamp
          /\ Len(_query_cache') = Cardinality(Kept) + 1
          /\ \E j \in 1..Len(_query_cache') :
                /\ _query_cache'[j].timestamp = now
                /\ _query_cache'[j].result = sqlOut'.value
                /\ ~HasKey(_query_cache, _query_cache'[j].key)]_varsFill

C30_EvictedWithSeveralTimestamps ==
    /\ fresh > QUERY_CACHE_MAX + 1
    /\ Len(_query_cache) = QUERY_CACHE_MAX - QUERY_CACHE_EVICT + 2
    /\ _query_cache[1].timestamp < _query_cache[Len(_query_cache)].timestamp
    /\ _query_cache[1].timestamp > 0


\* ------------------------------------------------------------------------
\* One row per normalized question
\* ------------------------------------------------------------------------
QuestionIds(table) == {_question_id(table[i].question) : i \in 1..Len(table)}
OneRowPerQuestion(table) == Cardinality(QuestionIds(table)) = Len(table)
WroteAgain == calls' # calls /\ now' # now
LastRow(table) == table[Len(table)]

\* C31: after every cache_response call the table holds at most one row per
\* trimmed, lower-cased question; a question written again in another
\* spelling takes the place of the row of the same normalized question, with
\* the new answer and the time of the call, and adds no row.
C31_OneRowPerNormalizedQuestion ==
    [][/\ OneRowPerQuestion(response_cache')
       /\ WroteAgain =>
             /\ LastRow(response_cache').answer = <<"b">>
             /\ LastRow(response_cache').cached_at = now
             /\ _question_id(LastRow(response_cache').question)
                   \in QuestionIds(response_cache)
             /\ \A i \in 1..Len(response_cache) :
                   response_cache[i].question # LastRow(response_cache').question
             /\ Len(response_cache) < MAX_CACHE_ENTRIES
                   => Len(response_cache') = Len(response_cache)]_varsResp

C31_OldestQuestionWrittenAgain ==
    /\ fresh > 1
    /\ Len(response_cache) = fresh
    /\ LastRow(response_cache).question = SameQuestionAgain(RespQuestion(1))
    /\ LastRow(response_cache).answer = <<"b">>
    /\ response_cache[1].question = RespQuestion(2)


\* ------------------------------------------------------------------------
\* The order of the events of run_agent_streaming
\* ------------------------------------------------------------------------
Log == trace.log
Requested(i) == Cardinality({j \in 1..i : Log[j].what = "request"})
\* the result returned to the LLM for a tool_use block of a turn
ResultsOf(step) == messages[Len(req.conversation_history) + 1 + 2 * step].content
ResultOf(step, block) ==
    (CHOOSE r \in {ResultsOf(step)[j] : j \in 1..Len(ResultsOf(step))} :
        r.tool_use_id = block).content
FollowedByResult(i) ==
    /\ i < Len(Log)
    /\ Log[i + 1] = [Log[i] EXCEPT !.yield = TRUE, !.what = "tool_result"]
EventType(what) == IF what \in {"thinking", "status"} THEN "status" ELSE what
Yields == SelectSeq(Log, LAMBDA e : e.yield)

\* C32: run_agent_streaming yields its events in the order of the work: the
\* status event of step N comes right before the N-th LLM request, the tool
\* event of a tool_use block before its tool runs, its tool_result event
\* (exactly when the result has rows) right after the tool and before the
\* next block's tool event, and no event or call of a later step comes before
\* one of an earlier step.
C32_EventsInIssueOrder ==
    req.streaming =>
        /\ \A i \in 1..Len(Log) :
              /\ Log[i].what = "request" =>
                    /\ i > 1
                    /\ Log[i - 1] = Yielded("thinking", Log[i].step)
                    /\ Log[i].step = Requested(i)
              /\ Log[i].what = "execute" =>
                    /\ i > 1
                    /\ Log[i - 1] = [Log[i] EXCEPT !.yield = TRUE, !.what = "tool"]
                    /\ FollowedByResult(i)
                          <=> ResultOf(Log[i].step, Log[i].block)[1] = "rows"
              /\ Log[i].what = "tool_result" => i > 1 /\ Log[i - 1].what = "execute"
              /\ Log[i].what = "tool" => i < Len(Log) /\ Log[i + 1].what = "execute"
              /\ \A j \in 1..i : Log[j].step <= Log[i].step
        /\ Len(events) = Len(Yields)
        /\ \A i \in 1..Len(events) : events[i].type = EventType(Yields[i].what)

C32_TwoStepsWithAndWithoutRows ==
    /\ req.streaming
    /\ pc = "done"
    /\ \E i \in 1..Len(Log) : Log[i].what = "request" /\ Log[i].step = 2
    /\ \E i \in 1..Len(Log) : Log[i].what = "execute" /\ FollowedByResult(i)
    /\ \E i \in 1..(Len(Log) - 1) :
          /\ Log[i].what = "execute"
          /\ Log[i + 1].what = "tool"
          /\ Log[i + 1].step = Log[i].step


\* ------------------------------------------------------------------------
\* Two execute_query calls running at the same time in one process. Each
\* call goes statement by statement through _get_cached, the request and
\* _set_cached; the cache is the one module-level dict.
\*   a task is [pc, key, victims, value]
\*   pc: "lookup"  if key in _query_cache
\*       "read"    entry = _query_cache[key], the test of its age
\*       "expire"  del _query_cache[key]
\*       "post"    the HTTP request
\*       "size"    if len(_query_cache) > 100
\*       "sort"    sorted_keys = sorted(...)
\*       "evict"   for k in sorted_keys[:50]: del _query_cache[k]
\*       "insert"  _query_cache[key] = {...}
\*       "done" (returned), "raised" (ValueError of the request),
\*       "failed" (KeyError of a dict access)
\* ------------------------------------------------------------------------
RaceQueryKey(n) == _cache_key("researchers", AddLimit(ParamQuery(n), DEFAULT_LIMIT))
\* the cache after n calls with n statements, made when the process started
CacheOf(n) ==
    [i \in 1..n |-> [key |-> RaceQueryKey(i), result |-> Result(<<1>>), timestamp |-> 0]]
NewTask(n) == [pc |-> "lookup", key |-> RaceQueryKey(n), victims |-> <<>>, value |-> None]
OtherParam(i) == 2 * QUERY_CACHE_MAX + i

InitRace ==
    /\ \E n \in {1, QUERY_CACHE_MAX, QUERY_CACHE_MAX + 1} : _query_cache = CacheOf(n)
    /\ now \in {0, CACHE_TTL}
    /\ \E n1 \in {1, OtherParam(1)}, n2 \in {1, OtherParam(2)} :
          tasks = <<NewTask(n1), NewTask(n2)>>
    /\ fresh = 0
    /\ sqlOut = NoCall
    /\ calls = 0
    /\ response_cache = <<>>
    /\ cacheOut = NoCacheCall
    /\ AGGREGATION_CACHE = <<>>
    /\ routeOut = NoRoute
    /\ AgentIdle

outsideRace == <<now, fresh, sqlOut, calls, response_cache, cacheOut, AGGREGATION_CACHE,
                 routeOut, agentVars>>

At(i, where) == tasks[i].pc = where
Goes(i, where) == tasks' = [tasks EXCEPT ![i].pc = where]

RaceLookupOf(i) ==
    /\ At(i, "lookup")
    /\ Goes(i, IF HasKey(_query_cache, tasks[i].key) THEN "read" ELSE "post")
    /\ UNCHANGED _query_cache

RaceReadOf(i) ==
    /\ At(i, "read")
    /\ IF ~HasKey(_query_cache, tasks[i].key) THEN Goes(i, "failed")
       ELSE \E entry \in {_query_cache[IndexOf(_query_cache, tasks[i].key)]} :
              IF now - entry.timestamp < CACHE_TTL
              THEN tasks' = [tasks EXCEPT ![i].pc = "done", ![i].value = entry.result]
              ELSE Goes(i, "expire")
    /\ UNCHANGED _query_cache

RaceExpireOf(i) ==
    /\ At(i, "expire")
    /\ IF ~HasKey(_query_cache, tasks[i].key)
       THEN Goes(i, "failed") /\ UNCHANGED _query_cache
       ELSE /\ _query_cache' = RemoveKey(_query_cache, tasks[i].key)
            /\ Goes(i, "post")

RacePostOf(i) ==
    /\ At(i, "post")
    /\ \/ tasks' = [tasks EXCEPT ![i].pc = "size", ![i].value = Result(<<2>>)]
       \/ tasks' = [tasks EXCEPT ![i].pc = "raised", ![i].value = Error("Query error: detail")]
    /\ UNCHANGED _query_cache

RaceSizeOf(i) ==
    /\ At(i, "size")
    /\ Goes(i, IF Len(_query_cache) > QUERY_CACHE_MAX THEN "sort" ELSE "insert")
    /\ UNCHANGED _query_cache

\* sorted_keys[:50], taken in one step
RaceSortOf(i) ==
    /\ At(i, "sort")
    /\ \E oldest \in {SelectIdx(_query_cache,
                               {j \in 1..Len(_query_cache) :
                                   SortRank(_query_cache, j) < QUERY_CACHE_EVICT})} :
          tasks' = [tasks EXCEPT ![i].pc = "evict",
                                 ![i].victims = [k \in 1..Len(oldest) |-> oldest[k].key]]
    /\ UNCHANGED _query_cache

RaceEvictOf(i) ==
    /\ At(i, "evict")
    /\ IF tasks[i].victims = <<>>
       THEN Goes(i, "insert") /\ UNCHANGED _query_cache
       ELSE IF ~HasKey(_query_cache, Head(tasks[i].victims))
       THEN Goes(i, "failed") /\ UNCHANGED _query_cache
       ELSE /\ _query_cache' = RemoveKey(_query_cache, Head(tasks[i].victims))
            /\ tasks' = [tasks EXCEPT ![i].victims = Tail(@)]

RaceInsertOf(i) ==
    /\ At(i, "insert")
    /\ _query_cache' = DictSet(_query_cache, [key |-> tasks[i].key,
                                              result |-> tasks[i].value,
                                              timestamp |-> now])
    /\ Goes(i, "done")

RaceLookup == \E i \in 1..2 : RaceLookupOf(i) /\ UNCHANGED outsideRace
RaceRead == \E i \in 1..2 : RaceReadOf(i) /\ UNCHANGED outsideRace
RaceExpire == \E i \in 1..2 : RaceExpireOf(i) /\ UNCHANGED outsideRace
RacePost == \E i \in 1..2 : RacePostOf(i) /\ UNCHANGED outsideRace
RaceSize == \E i \in 1..2 : RaceSizeOf(i) /\ UNCHANGED outsideRace
RaceSort == \E i \in 1..2 : RaceSortOf(i) /\ UNCHANGED outsideRace
RaceEvict == \E i \in 1..2 : RaceEvictOf(i) /\ UNCHANGED outsideRace
RaceInsert == \E i \in 1..2 : RaceInsertOf(i) /\ UNCHANGED outsideRace

NextRace ==
    \/ RaceLookup
    \/ RaceRead
    \/ RaceExpire
    \/ RacePost
    \/ RaceSize
    \/ RaceSort
    \/ RaceEvict
    \/ RaceInsert

varsRace == <<_query_cache, tasks, outsideRace>>

SpecRace == InitRace /\ [][NextRace]_varsRace

\* inside one of the two sequences on the cache
InLookupSequence(i) == tasks[i].pc \in {"read", "expire"}
InStoreSequence(i) == tasks[i].pc \in {"sort", "evict", "insert"}
InCacheSequence(i) == InLookupSequence(i) \/ InStoreSequence(i)

\* C33: two execute_query calls running at the same time never are inside
\* their cache sequences (lookup, expiry and delete; eviction and insert)
\* together, no call fails on a key the other one removed, and the cache
\* never holds more entries than calls made one after another can leave.
C33_CacheAccessesExclusive ==
    /\ \A i \in 1..2 : ~At(i, "failed")
    /\ Len(_query_cache) <= QUERY_CACHE_MAX + 1
    /\ ~(InCacheSequence(1) /\ InCacheSequence(2))


\* ------------------------------------------------------------------------
\* Two cache_response calls running at the same time in one process. Each
\* call has its own connection; the table is what is committed, a DELETE or
\* an INSERT takes the store's write lock until its commit, and a statement
\* that finds the lock taken waits or gives up ("database is locked").
\*   tasks is [writers, _model, built, lock, table0]
\*   a writer is [pc, question, count, tx]
\*   pc: "model"    if _model is None
\*       "load"     _model = SentenceTransformer(EMBEDDING_MODEL)
\*       "count"    SELECT COUNT(*), if count >= MAX_CACHE_ENTRIES
\*       "delete"   the DELETE of _cleanup_old_entries
\*       "cleaned"  the commit of _cleanup_old_entries
\*       "insert"   the INSERT OR REPLACE
\*       "commit"   the commit of cache_response
\*       "done" (returned; stored tells whether the row was written)
\* ------------------------------------------------------------------------
RowsOf(n) ==
    [i \in 1..n |-> [id |-> _question_id(RespQuestion(i)), question |-> RespQuestion(i),
                     answer |-> <<"a">>, tool_calls |-> <<>>, insights |-> <<>>,
                     cached_at |-> i - 1]]
NewWriter(n) == [pc |-> "model", question |-> RespQuestion(n), count |-> 0, tx |-> <<>>,
                 stored |-> FALSE]
NewQuestion(i) == 2 * MAX_CACHE_ENTRIES + i

InitWriters ==
    /\ \E n \in {0, 1, MAX_CACHE_ENTRIES - 1, MAX_CACHE_ENTRIES} :
          /\ response_cache = RowsOf(n)
          /\ now = n
          /\ \E n2 \in {NewQuestion(1), NewQuestion(2)}, loaded \in BOOLEAN :
                /\ loaded => n > 0
                /\ tasks = [writers |-> <<NewWriter(NewQuestion(1)), NewWriter(n2)>>,
                            _model |-> IF loaded THEN "model" ELSE "None",
                            built |-> IF loaded THEN 1 ELSE 0,
                            lock |-> 0,
                            table0 |-> RowsOf(n)]
    /\ fresh = 0
    /\ calls = 0
    /\ _query_cache = <<>>
    /\ sqlOut = NoCall
    /\ AGGREGATION_CACHE = <<>>
    /\ routeOut = NoRoute
    /\ cacheOut = NoCacheCall
    /\ AgentIdle

outsideWriters == <<now, fresh, calls, _query_cache, sqlOut, AGGREGATION_CACHE, routeOut,
                    cacheOut, agentVars>>

Writer(i) == tasks.writers[i]
WriterAt(i, where) == tasks.writers[i].pc = where

\* _get_model: the test
WriterModelOf(i) ==
    /\ WriterAt(i, "model")
    /\ tasks' = [tasks EXCEPT !.writers[i].pc =
                                 IF tasks._model = "None" THEN "load" ELSE "count"]
    /\ UNCHANGED response_cache

\* _get_model: the construction and the assignment
WriterLoadOf(i) ==
    /\ WriterAt(i, "load")
    /\ tasks' = [tasks EXCEPT !.writers[i].pc = "count", !._model = "model",
                              !.built = @ + 1]
    /\ UNCHANGED response_cache

WriterCountOf(i) ==
    /\ WriterAt(i, "count")
    /\ tasks' = [tasks EXCEPT !.writers[i].count = Len(response_cache),
                              !.writers[i].pc =
                                 IF Len(response_cache) >= MAX_CACHE_ENTRIES
                                 THEN "delete" ELSE "insert"]
    /\ UNCHANGED response_cache

\* the DELETE, or sqlite3.OperationalError caught by _cleanup_old_entries
WriterDeleteOf(i) ==
    /\ WriterAt(i, "delete")
    /\ IF tasks.lock = 0
       THEN tasks' = [tasks EXCEPT !.writers[i].pc = "cleaned", !.lock = i,
                                   !.writers[i].tx = _cleanup_old_entries(response_cache)]
       ELSE tasks' = [tasks EXCEPT !.writers[i].pc = "insert"]
    /\ UNCHANGED response_cache

WriterCleanedOf(i) ==
    /\ WriterAt(i, "cleaned")
    /\ response_cache' = Writer(i).tx
    /\ tasks' = [tasks EXCEPT !.writers[i].pc = "insert", !.lock = 0]

\* the INSERT OR REPLACE, or sqlite3.OperationalError caught by cache_response
WriterInsertOf(i) ==
    /\ WriterAt(i, "insert")
    /\ IF tasks.lock = 0
       THEN tasks' = [tasks EXCEPT
                        !.writers[i].pc = "commit", !.lock = i,
                        !.writers[i].tx =
                            InsertOrReplace(response_cache,
                                [id |-> _question_id(Writer(i).question),
                                 question |-> Writer(i).question,
                                 answer |-> FirstN(<<"b">>, ANSWER_CHARS),
                                 tool_calls |-> <<>>, insights |-> <<>>,
                                 cached_at |-> now])]
       ELSE tasks' = [tasks EXCEPT !.writers[i].pc = "done"]
    /\ UNCHANGED response_cache

WriterCommitOf(i) ==
    /\ WriterAt(i, "commit")
    /\ response_cache' = Writer(i).tx
    /\ tasks' = [tasks EXCEPT !.writers[i].pc = "done", !.writers[i].stored = TRUE,
                              !.lock = 0]

WriterModel == \E i \in 1..2 : WriterModelOf(i) /\ UNCHANGED outsideWriters
WriterLoad == \E i \in 1..2 : WriterLoadOf(i) /\ UNCHANGED outsideWriters
WriterCount == \E i \in 1..2 : WriterCountOf(i) /\ UNCHANGED outsideWriters
WriterDelete == \E i \in 1..2 : WriterDeleteOf(i) /\ UNCHANGED outsideWriters
WriterCleaned == \E i \in 1..2 : WriterCleanedOf(i) /\ UNCHANGED outsideWriters
WriterInsert == \E i \in 1..2 : WriterInsertOf(i) /\ UNCHANGED outsideWriters
WriterCommit == \E i \in 1..2 : WriterCommitOf(i) /\ UNCHANGED outsideWriters

NextWriters ==
    \/ WriterModel
    \/ WriterLoad
    \/ WriterCount
    \/ WriterDelete
    \/ WriterCleaned
    \/ WriterInsert
    \/ WriterCommit

varsWriters == <<response_cache, tasks, outsideWriters>>

SpecWriters == InitWriters /\ [][NextWriters]_varsWriters

\* C34: whatever the two first uses of the response cache do at the same
\* time, the embedding model is constructed at most once in the process.
C34_ModelConstructedAtMostOnce == tasks.built <= 1

\* the tables two calls made one after another can leave: either order, each
\* call storing its row or failing
OneAfterAnother(table, q1, q2, t) ==
    {cache_response(cache_response(table, t, qs[1], <<"b">>, <<>>, <<>>, outs[1]),
                    t, qs[2], <<"b">>, <<>>, <<>>, outs[2]) :
        qs \in {<<q1, q2>>, <<q2, q1>>},
        outs \in {"ok", "insert_error"} \X {"ok", "insert_error"}}
BothReturned == WriterAt(1, "done") /\ WriterAt(2, "done")

\* C35: two cache_response calls at the same time leave a table that the
\* two calls made one after another (in one of the two orders) leave as
\* well, and the table never holds more than MAX_CACHE_ENTRIES rows.
C35_WritersSerialized ==
    /\ Len(response_cache) <= MAX_CACHE_ENTRIES
    /\ BothReturned =>
          response_cache \in OneAfterAnother(tasks.table0, Writer(1).question,
                                             Writer(2).question, now)


\* ------------------------------------------------------------------------
\* What a failed execute_query leaves in the query cache
\* ------------------------------------------------------------------------
FailedCall == calls' # calls /\ sqlOut'.raised
KeyCalled == _cache_key("researchers", AddLimit(sqlOut'.query, DEFAULT_LIMIT))
KeyBefore == _cache_key("researchers", AddLimit(sqlOut.query, DEFAULT_LIMIT))
WithoutKey(cache, key) == SelectSeq(cache, LAMBDA e : e.key # key)
OnlyOkStored(cache) == \A i \in 1..Len(cache) : cache[i].result.kind = "ok"
\* the call after a failed call that used the cache, for the same key
AfterFailedCall ==
    /\ calls' # calls
    /\ Called /\ sqlOut.raised /\ sqlOut.use_cache
    /\ sqlOut'.use_cache
    /\ KeyCalled = KeyBefore

\* C36 as stated: a failed execute_query leaves the query cache unchanged,
\* only results of successful responses are stored, and an identical call
\* after it sends the request again.
C36_FailedCallLeavesCacheUnchanged ==
    [][/\ OnlyOkStored(_query_cache')
       /\ FailedCall => _query_cache' = _query_cache
       /\ AfterFailedCall => sqlOut'.posts # <<>>]_varsQuery

\* C36, amended: a failed execute_query stores nothing; with use_cache it
\* leaves the cache without the expired entry of its key, which the lookup
\* deleted before the request, and otherwise unchanged; only results of
\* successful responses are stored, and an identical call after it sends the
\* request again.
C36_FailedCallStoresNothing ==
    [][/\ OnlyOkStored(_query_cache')
       /\ FailedCall =>
             /\ _query_cache' =
                   IF sqlOut'.use_cache /\ sqlOut'.age >= CACHE_TTL
                   THEN WithoutKey(_query_cache, KeyCalled) ELSE _query_cache
             /\ sqlOut'.use_cache => ~HasKey(_query_cache', KeyCalled)
       /\ AfterFailedCall => sqlOut'.posts # <<>>]_varsQuery

C36_FailedCallDeletedExpiredEntry ==
    /\ Called
    /\ sqlOut.raised
    /\ sqlOut.use_cache
    /\ sqlOut.age >= CACHE_TTL
    /\ sqlOut.age_after = -1
    /\ sqlOut.stored.kind = "ok"
    /\ _query_cache = <<>>


\* ------------------------------------------------------------------------
\* The lists of the run after a tool call that ended with an error
\* ------------------------------------------------------------------------
EndedWithError == Executed /\ sqlOut.text[1] = "error"

\* C37: a tool call whose result is an object with an error field leaves the
\* insights list and the entities list of the run as they were before the
\* call (empty here), get_company_profile included.
C37_ErrorLeavesListsUnchanged ==
    EndedWithError => sqlOut.insights = <<>> /\ sqlOut.entities = <<>>


\* ------------------------------------------------------------------------
\* run_agent, then run_agent_streaming with the same arguments from the same
\* state of the caches and with the same answers of the environment
\* ------------------------------------------------------------------------
\* the pair is followed for requests of one and of two turns: a third turn
\* repeats the step of the second in both functions
InitPair == Init /\ ~req.streaming /\ req.max_turns \in {1, 2}

\* the streaming run starts where the first run started
AgentStream ==
    /\ pc = "done"
    /\ ~req.streaming
    /\ trace.earlier = <<>>
    /\ req' = [req EXCEPT !.streaming = TRUE]
    /\ response_cache' = trace.cache0
    /\ _query_cache' = <<>>
    /\ AGGREGATION_CACHE' = <<>>
    /\ routeOut' = NoRoute
    /\ cacheOut' = NoCacheCall
    /\ trace' = [NoTrace EXCEPT !.cache0 = trace.cache0,
                                !.earlier = <<[result |-> run_result,
                                               trace |-> trace,
                                               response_cache |-> response_cache,
                                               _query_cache |-> _query_cache,
                                               AGGREGATION_CACHE |-> AGGREGATION_CACHE]>>]
    /\ pc' = "router"
    /\ turns_used' = 0
    /\ messages' = <<>>
    /\ all_tool_calls' = <<>>
    /\ run_insights' = <<>>
    /\ run_entities' = <<>>
    /\ run_result' = NoResult
    /\ events' = <<>>
    /\ UNCHANGED <<now, fresh, calls, sqlOut, tasks>>

IsPrefix(a, b) == Len(a) <= Len(b) /\ a = SubSeq(b, 1, Len(a))
\* the environment answers the streaming run as it answered the first run
SameAnswers ==
    trace.earlier # <<>> => IsPrefix(trace'.inputs, trace.earlier[1].trace.inputs)
AgentStep == Next /\ SameAnswers

NextPair == AgentStep \/ AgentStream

SpecPair == InitPair /\ [][NextPair]_vars

First == trace.earlier[1]
Streamed == req.streaming /\ trace.earlier # <<>>
Calls(log) == SelectSeq(log, IsCall)

MaxEvents == 2

\* SQL NULL, Python None: a column value that no text of the inputs equals
NULL == <<"NULL">>

\* str.rstrip("\\")
RECURSIVE rstrip_backslash(_)
rstrip_backslash(s) ==
    IF s = <<>> THEN s
    ELSE IF s[Len(s)] = "\\" THEN rstrip_backslash(SubSeq(s, 1, Len(s) - 1))
    ELSE s

\* x.strip() or None
StripOrNone(s) == IF strip(s) = <<>> THEN NULL ELSE strip(s)

\* the parameters of the INSERT and of the UPDATE for one event
EventRow(event) ==
    [company |-> strip(rstrip_backslash(event.company)),
     drug |-> StripOrNone(event.drug),
     event_date |-> event.date,
     ticker |-> event.ticker]

\* UNIQUE(company, drug, event_date): two rows collide when the three
\* columns are equal and none of them is NULL
SameUnique(a, b) ==
    /\ a.company = b.company /\ a.company # NULL
    /\ a.drug = b.drug /\ a.drug # NULL
    /\ a.event_date = b.event_date /\ a.event_date # NULL

\* the INSERT raises sqlite3.IntegrityError: NOT NULL or UNIQUE
IntegrityError(table, row) ==
    \/ row.company = NULL
    \/ row.event_date = NULL
    \/ \E i \in 1..Len(table) : SameUnique(table[i], row)

\* UPDATE ... WHERE company = ? AND drug = ? AND event_date = ?
UpdateWhere(table, row) ==
    [i \in 1..Len(table) |->
        IF SameUnique(table[i], row)
        THEN [table[i] EXCEPT !.ticker = row.ticker, !.updates = @ + 1]
        ELSE table[i]]

\* one pass of the loop body
SyncOne(st, event) ==
    IF IntegrityError(st.table, EventRow(event))
    THEN [table |-> UpdateWhere(st.table, EventRow(event)),
          inserted |-> st.inserted, updated |-> st.updated + 1]
    ELSE [table |-> Append(st.table, [id |-> Len(st.table) + 1,
                                      company |-> EventRow(event).company,
                                      drug |-> EventRow(event).drug,
                                      event_date |-> EventRow(event).event_date,
                                      ticker |-> EventRow(event).ticker,
                                      updates |-> 0]),
          inserted |-> st.inserted + 1, updated |-> st.updated]

RECURSIVE SyncFrom(_, _)
SyncFrom(st, evs) ==
    IF evs = <<>> THEN st ELSE SyncFrom(SyncOne(st, Head(evs)), Tail(evs))

\* sync_events(conn, events): the table after the commit and the stats
sync_events(table, evs) == SyncFrom([table |-> table, inserted |-> 0, updated |-> 0], evs)

FdaCompanies == {<<"Acme">>, <<"Acme", "\\">>}
FdaDrugs == {<<>>, <<"DrugA">>}
FdaDates == {<<"2026-01-01">>, NULL}
FdaTickers == {<<"ACM">>, <<"ACME">>}
FdaEvents == [company : FdaCompanies, drug : FdaDrugs, date : FdaDates, ticker : FdaTickers]
EventLists == UNION {[1..n -> FdaEvents] : n \in 0..MaxEvents}

InitSync ==
    /\ \E evs \in EventLists, script \in {"scripts", "market_data"} :
          tasks = [script |-> script, json |-> evs, fda_events |-> <<>>, runs |-> 0,
                   once |-> <<>>, stats |-> [inserted |-> 0, updated |-> 0],
                   fetch_failed |-> FALSE]
    /\ now = 0
    /\ fresh = 0
    /\ calls = 0
    /\ _query_cache = <<>>
    /\ sqlOut = NoCall
    /\ response_cache = <<>>
    /\ AGGREGATION_CACHE = <<>>
    /\ routeOut = NoRoute
    /\ cacheOut = NoCacheCall
    /\ AgentIdle

outsideSync == <<now, fresh, calls, _query_cache, sqlOut, response_cache,
                 AGGREGATION_CACHE, routeOut, cacheOut, agentVars>>

Synced(done) ==
    [tasks EXCEPT !.fda_events = done.table,
                  !.stats = [inserted |-> done.inserted, updated |-> done.updated],
                  !.runs = @ + 1,
                  !.once = IF tasks.runs = 0 THEN done.table ELSE @]

\* scripts/sync_fda_calendar.py main(): load the JSON, sync_events
SyncScript ==
    /\ tasks.script = "scripts"
    /\ tasks.runs < 2
    /\ tasks' = Synced(sync_events(tasks.fda_events, tasks.json))
    /\ UNCHANGED outsideSync

\* market_data/sync_data.py sync_fda_calendar(): fetch, then the same loop
SyncFdaCalendar ==
    /\ tasks.script = "market_data"
    /\ tasks.runs < 2
    /\ \E fetched \in BOOLEAN :
          tasks' = IF fetched
                   THEN Synced(sync_events(tasks.fda_events, tasks.json))
                   ELSE [tasks EXCEPT !.fetch_failed = TRUE]
    /\ UNCHANGED outsideSync

NextSync == SyncScript \/ SyncFdaCalendar

varsSync == vars

SpecSync == InitSync /\ [][NextSync]_varsSync

UniqueKeys(table) ==
    {<<table[i].company, table[i].drug, table[i].event_date>> : i \in 1..Len(table)}
SyncedTwice == tasks.runs = 2

\* C39: running the sync twice with one event list leaves fda_events with
\* the (company, drug, event_date) rows and the row count of one run; the
\* second run inserts nothing and updates the rows in place, also for events
\* whose drug field is empty.
C39_SyncTwiceAsOnce ==
    SyncedTwice =>
        /\ UniqueKeys(tasks.fda_events) = UniqueKeys(tasks.once)
        /\ Len(tasks.fda_events) = Len(tasks.once)
        /\ tasks.stats.inserted = 0

=============================================================================
